---- MODULE Spec2Model ----
(***************************************************************************)
(* A model of asfv1, the alternate FV-1 assembler (src/asfv1.py).          *)
(*                                                                         *)
(* The state is that of one fv1parse object.  The source is a sequence of  *)
(* well-formed statements (a jump target, an instruction, or an EQU/MEM    *)
(* declaration); parse() consumes one statement per step, then runs the    *)
(* skip-target patch loop, and finally either exits with a status or       *)
(* encodes the parse list into the 512 byte program buffer.  main() then   *)
(* writes the buffer to the output file named on the command line.         *)
(***************************************************************************)
EXTENDS Integers, Naturals, Sequences, FiniteSets, TLC

VARIABLES source, doclamp, status, code, icnt, ecount, pl, jmptbl, symtbl,
          delaymem, program, regions, log, opts, outfile

vars == <<source, doclamp, status, code, icnt, ecount, pl, jmptbl, symtbl,
          delaymem, program, regions, log, opts, outfile>>

(***************************************************************************)
(* Program constants                                                       *)
(***************************************************************************)
PROGLEN == 128
DELAYSIZE == 32767
MAXERR == 10
PROGBYTES == 512

PROGRAMS == 8       \* target program numbers: range(0,8)
HEXWIDTH == 4       \* data bytes of one ihex record

M1 == 1
M2 == 3
M5 == 31
M6 == 63
M8 == 255
M9 == 511
M11 == 2047
M15 == 32767
M16 == 65535
M24 == 16777215

(***************************************************************************)
(* Bounds of the input set                                                 *)
(***************************************************************************)
MaxItems == 2       \* interesting statements in an instruction source
MaxLead == 1        \* plain instructions before the first of them
MaxDecls == 2       \* statements in a declaration source
ScenarioGap == 5    \* a short distance between a SKP and its target
ScenarioLen == 100  \* a typical delay length

(***************************************************************************)
(* 32 bit words.  A machine word can exceed the model checker's integers,  *)
(* so a word is the set of its one bits, bit 0 the least significant.      *)
(***************************************************************************)
RECURSIVE Power2(_)
Power2(n) == IF n = 0 THEN 1 ELSE 2 * Power2(n - 1)

Pow2Tbl == [n \in 0..30 |-> Power2(n)]

Pow2(n) == Pow2Tbl[n]

\* the low 32 bits of the two's complement of x, for -2^31 <= x < 2^31
Bits(x) ==
    {b \in 0..30 : (x \div Pow2(b)) % 2 = 1} \cup (IF x < 0 THEN {31} ELSE {})

\* x & m, m given by its bits
BitAnd(x, m) == Bits(x) \cap m

\* w << n
Shl(w, n) == {b + n : b \in w}

\* a | b
BitOr(a, b) == a \cup b

\* byte j (0 the most significant) of struct.pack('>I', w)
RECURSIVE ByteSum(_, _, _)
ByteSum(w, lo, b) ==
    IF b > 7 THEN 0
    ELSE (IF (lo + b) \in w THEN Pow2(b) ELSE 0) + ByteSum(w, lo, b + 1)

ByteOf(w, j) == ByteSum(w, 8 * (3 - j), 0)

\* 0xffffffff, by its bits
M32 == 0..31

(***************************************************************************)
(* Machine instruction table and encoder                                   *)
(***************************************************************************)
Mnemonics ==
    {"RDA", "RMPA", "WRA", "WRAP", "RDAX", "RDFX", "LDAX", "WRAX", "WRHX",
     "WRLX", "MAXX", "ABSA", "MULX", "LOG", "EXP", "SOF", "AND", "CLR", "OR",
     "XOR", "NOT", "SKP", "JMP", "NOP", "WLDS", "WLDR", "JAM", "CHO", "RAW"}

\* mutant: every field lies one bit higher
FldShifted(mask, lshift) == <<Bits(mask), lshift + 1>>

\* one operand field of the table: (mask, left shift), the mask by its bits
Fld(mask, lshift) == <<Bits(mask), lshift>>

\* mnemonic -> [opcode, (mask, left shift), ...]
op_tbl == [m \in Mnemonics |->
    CASE m = "RDA"   -> [opcode |-> 0, fields |-> <<Fld(M15, 5), Fld(M11, 21)>>]
      [] m = "RMPA"  -> [opcode |-> 1, fields |-> <<Fld(M11, 21)>>]
      [] m = "WRA"   -> [opcode |-> 2, fields |-> <<Fld(M15, 5), Fld(M11, 21)>>]
      [] m = "WRAP"  -> [opcode |-> 3, fields |-> <<Fld(M15, 5), Fld(M11, 21)>>]
      [] m = "RDAX"  -> [opcode |-> 4, fields |-> <<Fld(M6, 5), Fld(M16, 16)>>]
      [] m = "RDFX"  -> [opcode |-> 5, fields |-> <<Fld(M6, 5), Fld(M16, 16)>>]
      [] m = "LDAX"  -> [opcode |-> 5, fields |-> <<Fld(M6, 5)>>]
      [] m = "WRAX"  -> [opcode |-> 6, fields |-> <<Fld(M6, 5), Fld(M16, 16)>>]
      [] m = "WRHX"  -> [opcode |-> 7, fields |-> <<Fld(M6, 5), Fld(M16, 16)>>]
      [] m = "WRLX"  -> [opcode |-> 8, fields |-> <<Fld(M6, 5), Fld(M16, 16)>>]
      [] m = "MAXX"  -> [opcode |-> 9, fields |-> <<Fld(M6, 5), Fld(M16, 16)>>]
      [] m = "ABSA"  -> [opcode |-> 9, fields |-> << >>]
      [] m = "MULX"  -> [opcode |-> 10, fields |-> <<Fld(M6, 5)>>]
      [] m = "LOG"   -> [opcode |-> 11,
                         fields |-> <<Fld(M16, 16), Fld(M11, 5)>>]
      [] m = "EXP"   -> [opcode |-> 12,
                         fields |-> <<Fld(M16, 16), Fld(M11, 5)>>]
      [] m = "SOF"   -> [opcode |-> 13,
                         fields |-> <<Fld(M16, 16), Fld(M11, 5)>>]
      [] m = "AND"   -> [opcode |-> 14, fields |-> <<Fld(M24, 8)>>]
      [] m = "CLR"   -> [opcode |-> 14, fields |-> << >>]
      [] m = "OR"    -> [opcode |-> 15, fields |-> <<Fld(M24, 8)>>]
      [] m = "XOR"   -> [opcode |-> 16, fields |-> <<Fld(M24, 8)>>]
      [] m = "NOT"   -> [opcode |-> 16, fields |-> <<Fld(M24, 8)>>]
      [] m = "SKP"   -> [opcode |-> 17, fields |-> <<Fld(M5, 27), Fld(M6, 21)>>]
      [] m = "JMP"   -> [opcode |-> 17, fields |-> <<Fld(M5, 27), Fld(M6, 21)>>]
      [] m = "NOP"   -> [opcode |-> 17, fields |-> << >>]
      [] m = "WLDS"  -> [opcode |-> 18,
                         fields |-> <<Fld(M1, 29), Fld(M9, 20), Fld(M15, 5)>>]
      [] m = "WLDR"  -> [opcode |-> 18,
                         fields |-> <<Fld(M2, 29), Fld(M16, 13), Fld(M2, 5)>>]
      [] m = "JAM"   -> [opcode |-> 19, fields |-> <<Fld(M2, 6)>>]
      [] m = "CHO"   -> [opcode |-> 20,
                         fields |-> <<Fld(M2, 30), Fld(M2, 21),
                                      Fld(M6, 24), Fld(M16, 5)>>]
      [] m = "RAW"   -> [opcode |-> 0, fields |-> << <<M32, 0>> >>] ]

\* ret |= (mcode[i] & gen[i][0]) << gen[i][1] for i from k up, where operand
\* i is given; mnemonic is mcode[0], args[i] is mcode[i], and a mask of the
\* table is held by its bits
RECURSIVE op_gen_from(_, _, _, _)
op_gen_from(gen, args, k, ret) ==
    IF k > Len(gen.fields) THEN ret
    ELSE op_gen_from(gen, args, k + 1,
            IF k <= Len(args)
            THEN BitOr(ret, Shl(BitAnd(args[k], gen.fields[k][1]),
                                gen.fields[k][2]))
            ELSE ret)

\* mutant: the word starts from 0, the opcode is left out
op_gen_noopcode(mnemonic, args) ==
    op_gen_from(op_tbl[mnemonic], args, 1, {})

op_gen(mnemonic, args) ==
    op_gen_from(op_tbl[mnemonic], args, 1, Bits(op_tbl[mnemonic].opcode))

(***************************************************************************)
(* Statements of the source.  stxt is the upper-cased text of the leading  *)
(* token (target name, mnemonic, or EQU/MEM), label the name operand (the  *)
(* symbolic skip target or the declared label) and args the values of the  *)
(* numeric operands.                                                       *)
(***************************************************************************)
None == ""

\* a statement with one operand per entry of args: operand i is the label
\* refs[i] when that is a name, else the literal args[i], of type float
\* (counted in units of 1/REF_S_15) when i is in real and of type int
\* otherwise.  An instruction may lack trailing operands when the token
\* after it starts a statement.  An int literal of 2^31 or more is written
\* as its excess over 2^31, its position in wide; the sources give such
\* literals to RAW only.  Operand i is the expression "atom op rhs", or
\* "op atom" for a unary operator, when expr[i] = [op, rhs] is given, the
\* atom being the literal or the label.
Stmt(type, stxt, label, args, real, refs) ==
    [type |-> type, stxt |-> stxt, label |-> label, args |-> args,
     real |-> real, refs |-> refs, wide |-> {}, expr |-> << >>]

\* operands that are all literals
NoRefs(args) == [i \in 1..Len(args) |-> None]

Tgt(name) == Stmt("TARGET", name, None, << >>, {}, << >>)
Ins(mnemonic, args, target) ==
    Stmt("MNEMONIC", mnemonic, target, args, {}, NoRefs(args))
Asm(typ, arg1, arg2) ==
    Stmt("ASSEMBLER", typ, arg1, <<arg2>>, {}, <<None>>)
\* an integer literal left unread by the statement before it
Stray(val) == Stmt("INTEGER", None, None, <<val>>, {}, <<None>>)
\* an instruction with literal operands of either type
InsR(mnemonic, args, real) ==
    Stmt("MNEMONIC", mnemonic, None, args, real, NoRefs(args))
\* RAW with the int literal 2^31 + lo
RawWide(lo) == [Ins("RAW", <<lo>>, None) EXCEPT !.wide = {1}]
\* an instruction whose one operand is the expression "left op rhs", or
\* "op left", left a literal
InsE(mnemonic, left, real, op, rhs) ==
    [InsR(mnemonic, <<left>>, real) EXCEPT !.expr = <<[op |-> op, rhs |-> rhs]>>]
\* an instruction whose operands are labels
InsL(mnemonic, refs) ==
    Stmt("MNEMONIC", mnemonic, None, [i \in 1..Len(refs) |-> 0], {}, refs)
\* CHO: the type is the text of the token after the mnemonic
Cho(chotype, args) == Stmt("MNEMONIC", "CHO", chotype, args, {}, NoRefs(args))
\* a declaration whose value is a label
AsmL(typ, arg1, ref) == Stmt("ASSEMBLER", typ, arg1, <<0>>, {}, <<ref>>)
\* EQU or MEM followed by a token that is not a label
AsmKw(typ) == Stmt("ASSEMBLER", typ, None, << >>, {}, << >>)
\* a character that starts no token, such as @
Junk == Stmt("UNRECOGNISED", "@", None, << >>, {}, << >>)

(***************************************************************************)
(* Symbol table.  A key is (name, modifier), the modifier one of "", "#"   *)
(* and "^": the text NAME# is the key <<"NAME", "#">>.                     *)
(***************************************************************************)
Sym(name) == <<name, "">>
SymTop(name) == <<name, "#">>
SymMid(name) == <<name, "^">>

InitSymtbl ==
    LET t == << <<"SIN0_RATE", 0>>, <<"SIN0_RANGE", 1>>, <<"SIN1_RATE", 2>>,
                <<"SIN1_RANGE", 3>>, <<"RMP0_RATE", 4>>, <<"RMP0_RANGE", 5>>,
                <<"RMP1_RATE", 6>>, <<"RMP1_RANGE", 7>>, <<"POT0", 16>>,
                <<"POT1", 17>>, <<"POT2", 18>>, <<"ADCL", 20>>,
                <<"ADCR", 21>>, <<"DACL", 22>>, <<"DACR", 23>>,
                <<"ADDR_PTR", 24>>, <<"REG0", 32>>, <<"REG1", 33>>,
                <<"REG2", 34>>, <<"REG3", 35>>, <<"REG4", 36>>,
                <<"REG5", 37>>, <<"REG6", 38>>, <<"REG7", 39>>,
                <<"REG8", 40>>, <<"REG9", 41>>, <<"REG10", 42>>,
                <<"REG11", 43>>, <<"REG12", 44>>, <<"REG13", 45>>,
                <<"REG14", 46>>, <<"REG15", 47>>, <<"REG16", 48>>,
                <<"REG17", 49>>, <<"REG18", 50>>, <<"REG19", 51>>,
                <<"REG20", 52>>, <<"REG21", 53>>, <<"REG22", 54>>,
                <<"REG23", 55>>, <<"REG24", 56>>, <<"REG25", 57>>,
                <<"REG26", 58>>, <<"REG27", 59>>, <<"REG28", 60>>,
                <<"REG29", 61>>, <<"REG30", 62>>, <<"REG31", 63>>,
                <<"SIN0", 0>>, <<"SIN1", 1>>, <<"RMP0", 2>>, <<"RMP1", 3>>,
                <<"RDA", 0>>, <<"SOF", 2>>, <<"RDAL", 3>>, <<"SIN", 0>>,
                <<"COS", 1>>, <<"REG", 2>>, <<"COMPC", 4>>, <<"COMPA", 8>>,
                <<"RPTR2", 16>>, <<"NA", 32>>, <<"RUN", 16>>, <<"ZRC", 8>>,
                <<"ZRO", 4>>, <<"GEZ", 2>>, <<"NEG", 1>> >>
    IN  [k \in {Sym(t[i][1]) : i \in 1..Len(t)} |->
            LET i == CHOOSE j \in 1..Len(t) : Sym(t[j][1]) = k IN t[i][2]]

\* d[k] = v
Put(d, k, v) == [x \in DOMAIN d \cup {k} |-> IF x = k THEN v ELSE d[x]]

(***************************************************************************)
(* Diagnostics.  A line of the log is (kind, message, subject): the kind   *)
(* is that of the function that wrote it, the message its fixed text.      *)
(***************************************************************************)
ScanError(msg, what) == <<"scan error", msg, what>>
ParseError(msg, what) == <<"parse error", msg, what>>
ParseWarn(msg, what) == <<"warning", msg, what>>
Error(msg) == <<"error", msg, None>>
Info(msg) == <<"info", msg, None>>

\* n copies of a line
Times(n, m) == [i \in 1..n |-> m]

\* the lines scanerror and parseerror write, which count as errors
IsError(m) == m[1] \in {"scan error", "parse error"}

\* mutant: the run ends on the error that reaches the limit
TooManyEarly(e, n) == e + n >= MAXERR

\* the counter after n more errors exceeds the limit
TooMany(e, n) == e + n > MAXERR

\* scanerror, parseerror and parsewarn called for the lines msgs in turn,
\* from counter e and log lg: the counter and the log afterwards, and the
\* status of sys.exit when an error exceeded the limit (0 when none did)
RECURSIVE Report(_, _, _)
Report(e, lg, msgs) ==
    IF msgs = << >> THEN [ecount |-> e, log |-> lg, exit |-> 0]
    ELSE LET m == Head(msgs)
         IN  IF ~IsError(m) THEN Report(e, Append(lg, m), Tail(msgs))
             ELSE IF TooMany(e, 1)
             THEN [ecount |-> e + 1,
                   log |-> lg \o <<m, Error("too many errors, aborting.")>>,
                   exit |-> IF m[1] = "scan error" THEN -1 ELSE -2]
             ELSE Report(e + 1, Append(lg, m), Tail(msgs))

\* __next__ on characters that start no token: each is a scan error and is
\* dropped, and the scan goes on to the tokens after them
JunkRun(s) ==
    IF \E i \in 1..Len(s) : s[i].type # "UNRECOGNISED"
    THEN (CHOOSE i \in 1..Len(s) :
            /\ s[i].type # "UNRECOGNISED"
            /\ \A j \in 1..(i - 1) : s[j].type = "UNRECOGNISED") - 1
    ELSE Len(s)

ScanMsgs(s) == Times(JunkRun(s), ScanError("Unrecognised input", "@"))

AfterJunk(s) == SubSeq(s, JunkRun(s) + 1, Len(s))

\* the type of the next token of s that is one
NextType(s) == IF AfterJunk(s) = << >> THEN "EOF" ELSE Head(AfterJunk(s)).type

\* sys.exit inside a handler after the reports r, every field but the
\* counter and the log as it was
ErrorExit(r) ==
    /\ status' = "exit"
    /\ code' = r.exit
    /\ ecount' = r.ecount
    /\ log' = r.log
    /\ UNCHANGED <<source, doclamp, icnt, pl, jmptbl, symtbl, delaymem,
                   program, regions>>

(***************************************************************************)
(* Operand values.  The value of an expression is an int v, or a float     *)
(* held as the int v = value * REF_S_15 (real = TRUE): the floats of the   *)
(* model are the multiples of 1/REF_S_15, and its ints are smaller in      *)
(* size than 2^16 wherever they meet a float bound.                        *)
(***************************************************************************)
REF_S_15 == 32768
MIN_S_15 == -32768      \* -1.0, times REF_S_15
MAX_S_15 == 32767       \* (2^15 - 1) / REF_S_15, times REF_S_15
FRAC_S_15 == 15         \* REF_S_15 = 2^15

\* the value times REF_S_15
Q15(v, real) == IF real THEN v ELSE v * REF_S_15

\* int(x) == x
IntegerValued(v, real) == ~real \/ v % REF_S_15 = 0

\* int(x), for an integer valued x
IntOf(v, real) == IF real THEN v \div REF_S_15 ELSE v

\* round(num / den), den > 0: to the nearest int, a tie to the even one
RoundHalfEven(num, den) ==
    LET f == num \div den
        r == num % den
    IN  IF 2 * r < den THEN f
        ELSE IF 2 * r > den THEN f + 1
        ELSE IF f % 2 = 0 THEN f ELSE f + 1

\* int(round(x))
Round(v, real) == IF real THEN RoundHalfEven(v, REF_S_15) ELSE v

\* the int whose one bits are w, w within bits 0..30
RECURSIVE NumFrom(_, _)
NumFrom(w, b) ==
    IF b > 30 THEN 0
    ELSE (IF b \in w THEN Pow2(b) ELSE 0) + NumFrom(w, b + 1)

Num(w) == NumFrom(w, 0)

(***************************************************************************)
(* Operand coercers: the field value and the diagnostics written           *)
(***************************************************************************)
Val(v) == [val |-> v, msgs |-> << >>]
\* mutant: the value in error is replaced by 1
BadOne(m) == [val |-> 1, msgs |-> <<m>>]

\* the value in error is replaced by 0
Bad(m) == [val |-> 0, msgs |-> <<m>>]
Clamped(v, m) == [val |-> v, msgs |-> <<m>>]

\* mutant: a register out of range is clipped under clamp
register_clamped(v, real, mnemonic) ==
    IF IntegerValued(v, real)
    THEN LET reg == IntOf(v, real)
         IN  IF reg < 0 \/ reg > 63
             THEN IF doclamp
                  THEN Clamped(IF reg < 0 THEN 0 ELSE 63,
                               ParseWarn("Register clamped", mnemonic))
                  ELSE Bad(ParseError("Register out of range", mnemonic))
             ELSE Val(reg)
    ELSE Bad(ParseError("Invalid register", mnemonic))

\* __register__
register(v, real, mnemonic) ==
    IF IntegerValued(v, real)
    THEN LET reg == IntOf(v, real)
         IN  IF reg < 0 \/ reg > 63
             THEN Bad(ParseError("Register out of range", mnemonic))
             ELSE Val(reg)
    ELSE Bad(ParseError("Invalid register", mnemonic))

\* __d_15__: a value outside [MIN_S_15, MAX_S_15] is an address, a value
\* inside is a fraction of the delay memory
d_15(v, real, mnemonic) ==
    IF Q15(v, real) < MIN_S_15 \/ Q15(v, real) > MAX_S_15
    THEN LET oft == Round(v, real)
         IN  IF oft < -(M15 + 1) \/ oft > M15
             THEN IF doclamp
                  THEN Clamped(IF oft < -(M15 + 1) THEN -(M15 + 1) ELSE M15,
                               ParseWarn("Address clamped", mnemonic))
                  ELSE Bad(ParseError("Invalid address", mnemonic))
             ELSE Val(oft)
    ELSE Val(Q15(v, real))

\* __offset__
offset(v, real, mnemonic) ==
    IF IntegerValued(v, real)
    THEN LET oft == IntOf(v, real)
         IN  IF oft < 0 \/ oft > M6
             THEN Bad(ParseError("Offset out of range", mnemonic))
             ELSE Val(oft)
    ELSE Bad(ParseError("Invalid offset", mnemonic))

\* __condition__
condition(v, real, mnemonic) ==
    IF IntegerValued(v, real)
    THEN LET cond == IntOf(v, real)
         IN  IF cond < 0 \/ cond > M5
             THEN Bad(ParseError("Condition out of range", mnemonic))
             ELSE Val(cond)
    ELSE Bad(ParseError("Invalid condition", mnemonic))

\* __chotype__: the text of the token, not an operand
chotype(text) ==
    IF text \in {"RDA", "SOF", "RDAL"} THEN Val(symtbl[Sym(text)])
    ELSE Bad(ParseError("Invalid CHO type", text))

\* __choflags__
choflags(v, real, lfo) ==
    LET f == IF IntegerValued(v, real)
             THEN IF IntOf(v, real) < 0 \/ IntOf(v, real) > M6
                  THEN Bad(ParseError("Invalid flags", "CHO"))
                  ELSE Val(IntOf(v, real))
             ELSE Bad(ParseError("Invalid flags", "CHO"))
        oflags == f.val
        ramp == BitAnd(lfo, Bits(2)) # {}
        flags == Num(BitAnd(oflags, Bits(IF ramp THEN 62 ELSE 15)))
    IN  [val |-> flags,
         msgs |-> f.msgs \o
                  (IF oflags # flags
                   THEN <<ParseWarn(IF ramp THEN "RMP flags set"
                                    ELSE "SIN flags set", "CHO")>>
                   ELSE << >>)]

\* mutant: a value of 2^W is let through
FixedIntWide(arg, mask, fmt, mnemonic) ==
    IF arg < 0 \/ arg > mask + 1
    THEN IF doclamp
         THEN Clamped(IF arg < 0 THEN 0 ELSE mask,
                      ParseWarn(fmt \o " arg clamped", mnemonic))
         ELSE Bad(ParseError(fmt \o " arg out of range", mnemonic))
    ELSE Val(arg)

\* a fixed point coercer on an int, the field mask = 2^W - 1
FixedInt(arg, mask, fmt, mnemonic) ==
    IF arg < 0 \/ arg > mask
    THEN IF doclamp
         THEN Clamped(IF arg < 0 THEN 0 ELSE mask,
                      ParseWarn(fmt \o " arg clamped", mnemonic))
         ELSE Bad(ParseError(fmt \o " arg out of range", mnemonic))
    ELSE Val(arg)

\* a fixed point coercer on a float, the format one sign bit, n integer
\* bits and d fraction bits: REF = 2^d, MIN = -2^n, MAX = (2^(n+d) - 1) / REF
FixedReal(q, n, d, fmt, mnemonic) ==
    LET num == q * (IF d > FRAC_S_15 THEN Pow2(d - FRAC_S_15) ELSE 1)
        den == IF d < FRAC_S_15 THEN Pow2(FRAC_S_15 - d) ELSE 1
        lo == -Pow2(n + d)
        hi == Pow2(n + d) - 1
    IN  \* arg * REF = num / den
        IF num < lo * den \/ num > hi * den
        THEN IF doclamp
             THEN Clamped(IF num < lo * den THEN lo ELSE hi,
                          ParseWarn(fmt \o " arg clamped", mnemonic))
             ELSE Bad(ParseError(fmt \o " arg out of range", mnemonic))
        ELSE Val(RoundHalfEven(num, den))

\* __s1_14__
s1_14(v, real, mnemonic) ==
    IF real THEN FixedReal(v, 1, 14, "S1_14", mnemonic)
    ELSE FixedInt(v, M16, "S1_14", mnemonic)

\* __s_10__
s_10(v, real, mnemonic) ==
    IF real THEN FixedReal(v, 0, 10, "S_10", mnemonic)
    ELSE FixedInt(v, M11, "S_10", mnemonic)

\* __s_15a__, spinreals off
s_15a(v, real, mnemonic) ==
    IF real THEN FixedReal(v, 0, 15, "S_15", mnemonic)
    ELSE FixedInt(v, M16, "S_15", mnemonic)

\* __s_23__
s_23(v, real, mnemonic) ==
    IF real THEN FixedReal(v, 0, 23, "S_23", mnemonic)
    ELSE FixedInt(v, M24, "S_23", mnemonic)

\* __s1_9__
s1_9(v, real, mnemonic) ==
    IF real THEN FixedReal(v, 1, 9, "S1_9", mnemonic)
    ELSE FixedInt(v, M11, "S1_9", mnemonic)

\* __u_32__, on the ints of the model, all of them below 2^32
u_32(v, real, mnemonic) ==
    IF real THEN Bad(ParseError("Invalid U_32 arg", mnemonic))
    ELSE IF v < 0
    THEN IF doclamp THEN Clamped(0, ParseWarn("U_32 arg clamped", mnemonic))
         ELSE Bad(ParseError("U_32 arg out of range", mnemonic))
    ELSE Val(v)

\* __u_32__ on the int 2^31 + lo, which is in range: the value is kept, here
\* as the int of the same low 32 bits
u_32_wide(lo) == Val((lo - Pow2(30)) - Pow2(30))

\* __lfo__
lfo(v, real, mnemonic) ==
    IF IntegerValued(v, real)
    THEN IF IntOf(v, real) < 0 \/ IntOf(v, real) > 3
         THEN Bad(ParseError("Invalid LFO", mnemonic))
         ELSE Val(IntOf(v, real))
    ELSE Bad(ParseError("Invalid LFO", mnemonic))

\* __lfo_sinfreq__
lfo_sinfreq(v, real, mnemonic) ==
    IF IntegerValued(v, real)
    THEN LET freq == IntOf(v, real)
         IN  IF freq < 0 \/ freq > M9
             THEN IF doclamp
                  THEN Clamped(IF freq < 0 THEN 0 ELSE M9,
                               ParseWarn("Frequency clamped", mnemonic))
                  ELSE Bad(ParseError("Invalid frequency", mnemonic))
             ELSE Val(freq)
    ELSE Bad(ParseError("Invalid frequency", mnemonic))

\* __lfo_rampfreq__
lfo_rampfreq(v, real, mnemonic) ==
    \* -0.5 is -(REF_S_15 / 2) / REF_S_15
    IF Q15(v, real) < -(REF_S_15 \div 2) \/ Q15(v, real) > MAX_S_15
    THEN LET freq == Round(v, real)
         IN  IF freq < -(M15 + 1) \/ freq > M15
             THEN IF doclamp
                  THEN Clamped(IF freq < -(M15 + 1) THEN -(M15 + 1) ELSE M15,
                               ParseWarn("Frequency clamped", mnemonic))
                  ELSE Bad(ParseError("Invalid frequency", mnemonic))
             ELSE Val(freq)
    ELSE Val(Q15(v, real))

\* __lfo_rampamp__
rampamps ==
    [a \in {4096, 2048, 1024, 512, 0, 1, 2, 3} |->
        CASE a = 4096 -> 0 [] a = 2048 -> 1 [] a = 1024 -> 2 [] a = 512 -> 3
          [] OTHER -> a]

lfo_rampamp(v, real, mnemonic) ==
    IF IntegerValued(v, real) /\ IntOf(v, real) \in DOMAIN rampamps
    THEN Val(rampamps[IntOf(v, real)])
    ELSE Bad(ParseError("Invalid amplitude", mnemonic))

(***************************************************************************)
(* __target__                                                              *)
(***************************************************************************)
\* mutant: a second declaration is accepted wherever it stands
TargetRedefinedNever(lbl, oft) == << >>

\* the name is bound in the jump table, to another address
TargetRedefined(lbl, oft) ==
    IF lbl \in DOMAIN jmptbl /\ oft # jmptbl[lbl]
    THEN <<ParseError("Target redefined", lbl)>> ELSE << >>

\* mutant: only the names defined by the source are refused
TargetAssignedUser(lbl) ==
    IF Sym(lbl) \in DOMAIN symtbl \ DOMAIN InitSymtbl
    THEN <<ParseError("Target already assigned", lbl)>> ELSE << >>

\* the name is in the symbol table
TargetAssigned(lbl) ==
    IF Sym(lbl) \in DOMAIN symtbl
    THEN <<ParseError("Target already assigned", lbl)>> ELSE << >>

Target ==
    /\ status = "parse"
    /\ source # << >>
    /\ Head(source).type = "TARGET"
    /\ LET lbl == Head(source).stxt
           oft == icnt
           r == Report(ecount, log,
                       TargetRedefined(lbl, oft) \o TargetAssigned(lbl))
       IN  IF r.exit # 0 THEN ErrorExit(r)
           ELSE \* the table is set, then the next token is fetched
                LET t == Report(r.ecount, r.log, ScanMsgs(Tail(source)))
                IN  /\ ecount' = t.ecount
                    /\ log' = t.log
                    /\ jmptbl' = Put(jmptbl, lbl, oft)
                    /\ source' = AfterJunk(Tail(source))
                    /\ status' = IF t.exit # 0 THEN "exit" ELSE status
                    /\ code' = IF t.exit # 0 THEN t.exit ELSE code
                    /\ UNCHANGED <<doclamp, icnt, pl, symtbl, delaymem,
                                   program, regions>>

(***************************************************************************)
(* __instruction__                                                         *)
(***************************************************************************)
\* mutant: the address of an entry is one too high
EntryLate(mnemonic, args, target, addr) ==
    [mnemonic |-> mnemonic, args |-> args, target |-> target,
     addr |-> addr + 1]

\* an entry of the parse list
Entry(mnemonic, args, target, addr) ==
    [mnemonic |-> mnemonic, args |-> args, target |-> target, addr |-> addr]

\* mutant: the program length check is off by one
MaxProgramErrLate(n) == IF n > PROGLEN THEN 1 ELSE 0

MaxProgramErr(n) == IF n >= PROGLEN THEN 1 ELSE 0

\* __deref__: the value bound to a label; every value of the table is a
\* number, so the first look-up ends the walk
deref(label) == symtbl[Sym(label)]

\* __atom__ on operand i of a statement: a label or a literal
atom(st, i) ==
    IF st.refs[i] = None
    THEN [val |-> st.args[i], real |-> i \in st.real, msgs |-> << >>]
    ELSE IF Sym(st.refs[i]) \in DOMAIN symtbl
    THEN [val |-> deref(st.refs[i]), real |-> FALSE, msgs |-> << >>]
    ELSE [val |-> 0, real |-> FALSE,
          msgs |-> <<ParseError("Undefined label", st.refs[i])>>]

(***************************************************************************)
(* The values of expressions: Python ints and floats.  A float is held as  *)
(* the fraction num / den in lowest terms, den > 0; the operators are      *)
(* those of Python on int and float, which return a value of either type,  *)
(* a complex number, or raise an exception.                                *)
(***************************************************************************)
RECURSIVE Gcd(_, _)
Gcd(a, b) == IF b = 0 THEN a ELSE Gcd(b, a % b)

Abs(x) == IF x < 0 THEN -x ELSE x

PyInt(n) == [type |-> "int", num |-> n, den |-> 1, msg |-> None]

PyFloat(n, d) ==
    [type |-> "float",
     num |-> (IF d < 0 THEN -n ELSE n) \div Gcd(Abs(n), Abs(d)),
     den |-> Abs(d) \div Gcd(Abs(n), Abs(d)),
     msg |-> None]

PyComplex == [type |-> "complex", num |-> 0, den |-> 1, msg |-> None]

\* an exception, msg its text
Raise(msg) == [type |-> "raise", num |-> 0, den |-> 1, msg |-> msg]

\* the result n / d of an arithmetic operator: an int when both operands
\* are, and then d = 1, else a float
Arith(a, b, n, d) ==
    IF a.type = "int" /\ b.type = "int" THEN PyInt(n) ELSE PyFloat(n, d)

RECURSIVE IntPow(_, _)
IntPow(x, k) == IF k = 0 THEN 1 ELSE x * IntPow(x, k - 1)

\* the square root of a perfect square
Isqrt(n) == CHOOSE r \in 0..n : r * r = n

\* the int of a 32 bit two's complement word
Signed(w) ==
    IF 31 \in w THEN (Num(w \ {31}) - Pow2(30)) - Pow2(30) ELSE Num(w)

\* acc + rarg, acc - rarg, acc * rarg
py_add(a, b) == Arith(a, b, a.num * b.den + b.num * a.den, a.den * b.den)
py_sub(a, b) == Arith(a, b, a.num * b.den - b.num * a.den, a.den * b.den)
py_mul(a, b) == Arith(a, b, a.num * b.num, a.den * b.den)

\* acc / rarg
py_truediv(a, b) ==
    IF b.num = 0 THEN Raise("division by zero")
    ELSE PyFloat(a.num * b.den, a.den * b.num)

\* acc // rarg
py_floordiv(a, b) ==
    IF b.num = 0 THEN Raise("division by zero")
    ELSE Arith(a, b,
               IF b.num > 0 THEN (a.num * b.den) \div (a.den * b.num)
               ELSE (-(a.num * b.den)) \div (-(a.den * b.num)),
               1)

\* mutant: an int to the power of a negative int is truncated to an int
py_pow_int(a, b) ==
    IF b.den = 1
    THEN IF b.num >= 0
         THEN Arith(a, b, IntPow(a.num, b.num), IntPow(a.den, b.num))
         ELSE IF a.num = 0
         THEN Raise("0.0 cannot be raised to a negative power")
         ELSE Arith(a, b, IntPow(a.den, -b.num) \div IntPow(a.num, -b.num),
                    1)
    ELSE IF a.num < 0 THEN PyComplex
    ELSE IF a.num = 0
    THEN IF b.num < 0 THEN Raise("0.0 cannot be raised to a negative power")
         ELSE PyFloat(0, 1)
    ELSE CASE b.den = 2 /\ b.num > 0 ->
                PyFloat(IntPow(Isqrt(a.num), b.num),
                        IntPow(Isqrt(a.den), b.num))
           [] b.den = 2 /\ b.num < 0 ->
                PyFloat(IntPow(Isqrt(a.den), -b.num),
                        IntPow(Isqrt(a.num), -b.num))

\* acc ** rarg: an integer power is a repeated product, and its inverse,
\* a float, when the exponent is negative; a negative number to a
\* fractional power is complex; the fractional powers of the sources are
\* square roots of perfect squares
py_pow(a, b) ==
    IF b.den = 1
    THEN IF b.num >= 0
         THEN Arith(a, b, IntPow(a.num, b.num), IntPow(a.den, b.num))
         ELSE IF a.num = 0
         THEN Raise("0.0 cannot be raised to a negative power")
         ELSE PyFloat(IntPow(a.den, -b.num), IntPow(a.num, -b.num))
    ELSE IF a.num < 0 THEN PyComplex
    ELSE IF a.num = 0
    THEN IF b.num < 0 THEN Raise("0.0 cannot be raised to a negative power")
         ELSE PyFloat(0, 1)
    ELSE CASE b.den = 2 /\ b.num > 0 ->
                PyFloat(IntPow(Isqrt(a.num), b.num),
                        IntPow(Isqrt(a.den), b.num))
           [] b.den = 2 /\ b.num < 0 ->
                PyFloat(IntPow(Isqrt(a.den), -b.num),
                        IntPow(Isqrt(a.num), -b.num))

\* TypeError: the operator is not defined on a float
Unsupported(op) == Raise("unsupported operand type(s) for " \o op)

\* mutant: a float that is a whole number is taken as an int
BothIntPromoted(a, b) == a.den = 1 /\ b.den = 1

\* the operands of a bitwise operator or a shift
BothInt(a, b) == a.type = "int" /\ b.type = "int"

\* acc | rarg, acc ^ rarg, acc & rarg
py_or(a, b) ==
    IF BothInt(a, b) THEN PyInt(Signed(Bits(a.num) \cup Bits(b.num)))
    ELSE Unsupported("|")

py_xor(a, b) ==
    IF BothInt(a, b)
    THEN PyInt(Signed((Bits(a.num) \cup Bits(b.num))
                      \ (Bits(a.num) \cap Bits(b.num))))
    ELSE Unsupported("^")

py_and(a, b) ==
    IF BothInt(a, b) THEN PyInt(Signed(Bits(a.num) \cap Bits(b.num)))
    ELSE Unsupported("&")

\* acc << rarg, acc >> rarg, for the small counts of the sources
py_lshift(a, b) ==
    IF ~BothInt(a, b) THEN Unsupported("<<")
    ELSE IF b.num < 0 THEN Raise("negative shift count")
    ELSE PyInt(a.num * Pow2(b.num))

py_rshift(a, b) ==
    IF ~BothInt(a, b) THEN Unsupported(">>")
    ELSE IF b.num < 0 THEN Raise("negative shift count")
    ELSE PyInt(a.num \div Pow2(b.num))

\* -acc, ~acc and int(round(acc))
py_neg(a) == [a EXCEPT !.num = -@]

py_invert(a) ==
    IF BothInt(a, a) THEN PyInt(-a.num - 1)
    ELSE Raise("bad operand type for unary ~")

py_int_round(a) == PyInt(RoundHalfEven(a.num, a.den))

BinaryOps == {"|", "^", "&", "<<", ">>", "+", "-", "*", "//", "/", "**"}

UnaryOps == {"u+", "u-", "~", "!", "INT"}

\* __or_expr__ down to __power__ on one operator: the value of "a op b",
\* or of "op a"
Apply(op, a, b) ==
    CASE op = "|" -> py_or(a, b)
      [] op = "^" -> py_xor(a, b)
      [] op = "&" -> py_and(a, b)
      [] op = "<<" -> py_lshift(a, b)
      [] op = ">>" -> py_rshift(a, b)
      [] op = "+" -> py_add(a, b)
      [] op = "-" -> py_sub(a, b)
      [] op = "*" -> py_mul(a, b)
      [] op = "//" -> py_floordiv(a, b)
      [] op = "/" -> py_truediv(a, b)
      [] op = "**" -> py_pow(a, b)
      [] op = "u+" -> a
      [] op = "u-" -> py_neg(a)
      [] op \in {"~", "!"} -> py_invert(a)
      [] op = "INT" -> py_int_round(a)

\* the value of an atom as a Python number
PyValue(a) == IF a.real THEN PyFloat(a.val, REF_S_15) ELSE PyInt(a.val)

\* __expression__ on the result r of the operators: an exception and a
\* result that is neither int nor float are parse errors, written after
\* the token that follows the expression was fetched, and the value is 0.
\* The floats of the sources are multiples of 1 / REF_S_15.
Evaluated(a, r) ==
    CASE r.type = "int" ->
            [val |-> r.num, real |-> FALSE, msgs |-> a.msgs, late |-> << >>]
      [] r.type = "float" /\ REF_S_15 % r.den = 0 ->
            [val |-> r.num * (REF_S_15 \div r.den), real |-> TRUE,
             msgs |-> a.msgs, late |-> << >>]
      [] r.type = "complex" ->
            [val |-> 0, real |-> FALSE, msgs |-> a.msgs,
             late |-> <<ParseError("Expression result invalid type",
                                   r.type)>>]
      [] r.type = "raise" ->
            [val |-> 0, real |-> FALSE, msgs |-> a.msgs,
             late |-> <<ParseError(r.msg, None)>>]

\* an atom that is the whole expression
Alone(a) ==
    [val |-> a.val, real |-> a.real, msgs |-> a.msgs, late |-> << >>]

\* __expression__ on operand i: when the operand is missing the token seen
\* starts the next statement, and the value is 0
expression(st, i, rest) ==
    IF i > Len(st.args)
    THEN [val |-> 0, real |-> FALSE,
          msgs |-> <<ParseError("Unexpected", NextType(rest))>>,
          late |-> << >>]
    ELSE IF i \in DOMAIN st.expr
    THEN Evaluated(atom(st, i),
                   Apply(st.expr[i].op, PyValue(atom(st, i)),
                         st.expr[i].rhs))
    ELSE Alone(atom(st, i))

\* the coercers of the operands of a mnemonic, in order
Signature(st) ==
    LET m == st.stxt IN
    CASE m \in {"AND", "OR", "XOR"} -> <<"s_23">>
      [] m \in {"SOF", "EXP", "LOG"} -> <<"s1_14", "s_10">>
      [] m \in {"RDAX", "WRAX", "MAXX", "RDFX", "WRLX", "WRHX"} ->
            <<"register", "s1_14">>
      [] m \in {"MULX", "LDAX"} -> <<"register">>
      [] m \in {"RDA", "WRA", "WRAP"} -> <<"d_15", "s1_9">>
      [] m = "RMPA" -> <<"s1_9">>
      [] m = "WLDS" -> <<"lfo", "lfo_sinfreq", "d_15">>
      [] m = "WLDR" -> <<"lfo", "lfo_rampfreq", "lfo_rampamp">>
      [] m = "JAM" -> <<"lfo">>
      [] m = "RAW" -> <<"u_32">>
      \* a symbolic target stands in the place of the offset
      [] m = "SKP" -> IF st.label # None THEN <<"condition">>
                      ELSE <<"condition", "offset">>
      [] m = "JMP" -> IF st.label # None THEN << >> ELSE <<"offset">>
      \* cho rda,lfo,flags,address; cho sof,lfo,flags,offset;
      \* cho rdal,lfo[,flags]; any other type is read as rda
      [] m = "CHO" -> IF st.label = "RDAL"
                      THEN IF Len(st.args) >= 2 THEN <<"lfo", "choflags">>
                           ELSE <<"lfo">>
                      ELSE <<"lfo", "choflags", "s_15a">>
      [] OTHER -> << >>

\* the coercer named, on a value; first is the value of the first operand
Coerce(name, v, real, mnemonic, first) ==
    CASE name = "s_23" -> s_23(v, real, mnemonic)
      [] name = "s1_14" -> s1_14(v, real, mnemonic)
      [] name = "s_10" -> s_10(v, real, mnemonic)
      [] name = "s1_9" -> s1_9(v, real, mnemonic)
      [] name = "s_15a" -> s_15a(v, real, mnemonic)
      [] name = "register" -> register(v, real, mnemonic)
      [] name = "d_15" -> d_15(v, real, mnemonic)
      [] name = "u_32" -> u_32(v, real, mnemonic)
      [] name = "lfo" ->
            lfo(v, real, IF mnemonic = "WLDR" THEN None ELSE mnemonic)
      [] name = "lfo_sinfreq" -> lfo_sinfreq(v, real, mnemonic)
      [] name = "lfo_rampfreq" -> lfo_rampfreq(v, real, mnemonic)
      [] name = "lfo_rampamp" -> lfo_rampamp(v, real, mnemonic)
      [] name = "condition" -> condition(v, real, mnemonic)
      [] name = "offset" -> offset(v, real, mnemonic)
      [] name = "choflags" -> choflags(v, real, first)

\* operand i of an instruction: the field value, the diagnostics written
\* before the token after the operand is fetched and those written after
OperandOf(st, i, a, c) ==
    [val |-> c.val,
     before |-> (IF i >= 2 /\ i > Len(st.args)
                 THEN <<ParseError("Missing required operand", st.stxt)>>
                 ELSE << >>) \o a.msgs,
     after |-> a.late \o c.msgs]

\* the value a of the expression, given to the coercer of operand i
Coerced(st, i, a, first) ==
    OperandOf(st, i, a,
              IF i \in st.wide /\ Signature(st)[i] = "u_32"
              THEN u_32_wide(a.val)
              ELSE Coerce(Signature(st)[i], a.val, a.real, st.stxt, first))

Operand(st, i, rest, first) == Coerced(st, i, expression(st, i, rest), first)

\* the operands of an instruction, in order
Operands(st, rest) ==
    LET n == Len(Signature(st))
        first == IF n = 0 THEN 0 ELSE Operand(st, 1, rest, 0).val
    IN  [i \in 1..n |-> Operand(st, i, rest, first)]

\* the diagnostics of the operands from i on, junk those of the scan past
\* the last token of the statement, operand k
RECURSIVE OperandMsgs(_, _, _, _)
OperandMsgs(ops, i, k, junk) ==
    IF i > Len(ops) THEN << >>
    ELSE ops[i].before \o (IF i = k THEN junk ELSE << >>) \o ops[i].after
         \o OperandMsgs(ops, i + 1, k, junk)

\* the diagnostics of an instruction, in the order written
InstructionMsgs(st, ops, rest) ==
    LET junk == ScanMsgs(rest)
        k == Len(st.args)
        maxp == Times(MaxProgramErr(icnt),
                      ParseError("Max program exceeded", st.stxt))
        typ == IF st.stxt = "CHO" THEN chotype(st.label).msgs ELSE << >>
    IN  IF st.label = None
        THEN IF k = 0 THEN junk \o maxp \o OperandMsgs(ops, 1, 0, junk)
             ELSE maxp \o OperandMsgs(ops, 1, k, junk)
        ELSE IF k = 0 THEN maxp \o junk \o typ \o OperandMsgs(ops, 1, 0, junk)
        ELSE IF st.stxt = "CHO" THEN maxp \o typ \o OperandMsgs(ops, 1, k, junk)
        ELSE maxp \o OperandMsgs(ops, 1, 0, junk) \o junk

\* x | 0x02 and x & 0x01 on a small int
Or2(x) == Num(BitOr(Bits(x), Bits(2)))
And1(x) == Num(BitAnd(x, Bits(1)))

\* mutant: NOT is stored as XOR with the 16 bit mask
PseudoShortMask(mnemonic, v, addr) ==
    CASE mnemonic = "CLR" -> Entry("AND", <<0>>, None, addr)
      [] mnemonic = "NOT" -> Entry("XOR", <<M16>>, None, addr)
      [] mnemonic = "NOP" -> Entry("NOP", <<0>>, None, addr)
      [] mnemonic = "ABSA" -> Entry("MAXX", <<0, 0>>, None, addr)
      [] mnemonic = "LDAX" -> Entry("RDFX", <<v[1], 0>>, None, addr)

\* the pseudo commands
Pseudo(mnemonic, v, addr) ==
    CASE mnemonic = "CLR" -> Entry("AND", <<0>>, None, addr)
      [] mnemonic = "NOT" -> Entry("XOR", <<M24>>, None, addr)
      [] mnemonic = "NOP" -> Entry("NOP", <<0>>, None, addr)
      [] mnemonic = "ABSA" -> Entry("MAXX", <<0, 0>>, None, addr)
      [] mnemonic = "LDAX" -> Entry("RDFX", <<v[1], 0>>, None, addr)

\* mutant: a target name that is bound in the symbol table is evaluated
SkipOperandEvaluated(st, v) ==
    IF st.label # None /\ Sym(st.label) \in DOMAIN symtbl
    THEN [target |-> None, offset |-> symtbl[Sym(st.label)]]
    ELSE [target |-> st.label,
          offset |-> IF st.label # None THEN 0 ELSE v[Len(v)]]

\* the last operand of SKP and JMP: a LABEL or TARGET token is the name of
\* the target and the offset stays 0, anything else is read by __offset__
SkipOperand(st, v) ==
    [target |-> st.label,
     offset |-> IF st.label # None THEN 0 ELSE v[Len(v)]]

\* the parse list entry of a statement, v the fields of its operands
EntryOf(st, addr, v) ==
    LET mnemonic == st.stxt
    IN  CASE mnemonic \in {"SKP", "JMP"} ->
                Entry("SKP",
                      <<IF mnemonic = "SKP" THEN v[1] ELSE 0,
                        SkipOperand(st, v).offset>>,
                      SkipOperand(st, v).target, addr)
          [] mnemonic \in {"CLR", "NOT", "NOP", "ABSA", "LDAX"} ->
                Pseudo(mnemonic, v, addr)
          [] mnemonic = "WLDS" ->
                Entry("WLDS", <<And1(v[1]), v[2], v[3]>>, None, addr)
          [] mnemonic = "WLDR" ->
                Entry("WLDR", <<Or2(v[1]), v[2], v[3]>>, None, addr)
          [] mnemonic = "JAM" -> Entry("JAM", <<Or2(v[1])>>, None, addr)
          [] mnemonic = "CHO" ->
                Entry("CHO",
                      <<chotype(st.label).val, v[1],
                        IF Len(v) >= 2 THEN v[2] ELSE 2,
                        IF Len(v) >= 3 THEN v[3] ELSE 0>>,
                      None, addr)
          [] OTHER -> Entry(mnemonic, v, None, addr)

\* the entry and the diagnostics of a statement whose operands are ops
ParsedFrom(st, addr, rest, ops) ==
    [entry |-> EntryOf(st, addr, [i \in 1..Len(ops) |-> ops[i].val]),
     msgs |-> InstructionMsgs(st, ops, rest)]

\* the parse list entry of a statement and the diagnostics it writes
Parsed(st, addr, rest) == ParsedFrom(st, addr, rest, Operands(st, rest))

\* the diagnostics are reported, and unless one ends the run the entry is
\* appended
Appended(entry, t) ==
    IF t.exit # 0 THEN ErrorExit(t)
    ELSE /\ ecount' = t.ecount
         /\ log' = t.log
         /\ pl' = Append(pl, entry)
         /\ icnt' = icnt + 1
         /\ source' = AfterJunk(Tail(source))
         /\ UNCHANGED <<doclamp, status, code, jmptbl, symtbl, delaymem,
                        program, regions>>

Reported(r) == Appended(r.entry, Report(ecount, log, r.msgs))

Instruction ==
    /\ status = "parse"
    /\ source # << >>
    /\ Head(source).type = "MNEMONIC"
    /\ Reported(Parsed(Head(source), icnt, Tail(source)))

(***************************************************************************)
(* __assembler__                                                           *)
(***************************************************************************)
Reserved == {"RDAL", "SOF", "RDA"}

\* the length of a MEM declaration after the range check
MemLength(arg2) ==
    IF arg2 < 0 \/ arg2 > DELAYSIZE
    THEN IF doclamp THEN (IF arg2 < 0 THEN 0 ELSE DELAYSIZE) ELSE 0
    ELSE arg2

MemSizeErr(arg2) ==
    IF (arg2 < 0 \/ arg2 > DELAYSIZE) /\ ~doclamp THEN 1 ELSE 0

\* top ptr goes to largest addr+1
MemTop(base, len) == base + len

\* mutant: the request may exceed the remaining memory by one cell
MemExhaustedErrLate(base, top) ==
    IF base > DELAYSIZE THEN 1 ELSE IF top > DELAYSIZE + 1 THEN 1 ELSE 0

\* mutant: only exhausted memory is an error, not an excessive request
MemExhaustedErrOnly(base, top) == IF base > DELAYSIZE THEN 1 ELSE 0

MemExhaustedErr(base, top) ==
    IF base > DELAYSIZE THEN 1 ELSE IF top > DELAYSIZE THEN 1 ELSE 0

\* mutant: the midpoint is rounded up
MemMidUp(base, len) == base + (len + 1) \div 2

MemMid(base, len) == base + len \div 2

\* mutant: the next region starts on the top cell of this one
MemNextSame(top) == top

MemNext(top) == top + 1

\* mutant: no name is reserved
ReservedErrNone(arg1) == << >>

\* disallowed re-assignments
ReservedErr(arg1) ==
    IF arg1 \in Reserved
    THEN <<ParseError("Reserved label cannot be re-defined", arg1)>>
    ELSE << >>

\* the length of a MEM declaration as an int
MemInteger(v, real) == IF IntegerValued(v, real) THEN IntOf(v, real) ELSE 0

\* the diagnostics of a declaration of a label that is not reserved, in
\* the order written: the value is read, and the next token fetched,
\* after the warning and before the checks of MEM
AssemblerMsgs(st, rest) ==
    LET arg1 == st.label
        a == atom(st, 1)
        arg2 == MemInteger(a.val, a.real)
        top == MemTop(delaymem, MemLength(arg2))
    IN  (IF Sym(arg1) \in DOMAIN symtbl
         THEN <<ParseWarn("Label re-defined", arg1)>> ELSE << >>)
        \o a.msgs \o ScanMsgs(rest)
        \o (IF st.stxt # "MEM" THEN << >>
            ELSE (IF IntegerValued(a.val, a.real) THEN << >>
                  ELSE <<ParseError("Memory length not integer", arg1)>>)
                 \o Times(MemSizeErr(arg2),
                          ParseError("Invalid memory size", arg1))
                 \o Times(MemExhaustedErr(delaymem, top),
                          ParseError("Delay memory exhausted", arg1)))

\* a declaration; the values bound by the model are ints
Assembler ==
    /\ status = "parse"
    /\ source # << >>
    /\ Head(source).type = "ASSEMBLER"
    /\ LET st == Head(source)
           typ == st.stxt
           arg1 == st.label
       IN  IF arg1 = None
           \* the token after EQU or MEM is not a label: it is left unread
           THEN LET r == Report(ecount, log,
                           ScanMsgs(Tail(source))
                           \o <<ParseError("Expected LABEL",
                                           NextType(Tail(source)))>>)
                IN  IF r.exit # 0 THEN ErrorExit(r)
                    ELSE /\ ecount' = r.ecount
                         /\ log' = r.log
                         /\ source' = AfterJunk(Tail(source))
                         /\ UNCHANGED <<doclamp, status, code, icnt, pl,
                                        jmptbl, symtbl, delaymem, program,
                                        regions>>
           ELSE IF ReservedErr(arg1) # << >>
           \* returns before the second argument is read
           THEN LET r == Report(ecount, log, ReservedErr(arg1))
                IN  IF r.exit # 0 THEN ErrorExit(r)
                    ELSE /\ ecount' = r.ecount
                         /\ log' = r.log
                         /\ source' = <<Stray(st.args[1])>> \o Tail(source)
                         /\ UNCHANGED <<doclamp, status, code, icnt, pl,
                                        jmptbl, symtbl, delaymem, program,
                                        regions>>
           ELSE LET a == atom(st, 1)
                    arg2 == MemInteger(a.val, a.real)
                    len == MemLength(arg2)
                    top == MemTop(delaymem, len)
                    r == Report(ecount, log, AssemblerMsgs(st, Tail(source)))
                IN  IF r.exit # 0 THEN ErrorExit(r)
                    ELSE /\ ecount' = r.ecount
                         /\ log' = r.log
                         /\ source' = AfterJunk(Tail(source))
                         /\ IF typ = "MEM"
                            THEN /\ symtbl' =
                                      Put(Put(Put(symtbl, Sym(arg1),
                                                  delaymem),
                                              SymTop(arg1), top),
                                          SymMid(arg1),
                                          MemMid(delaymem, len))
                                 /\ delaymem' = MemNext(top)
                                 /\ regions' = Append(regions,
                                       [name |-> arg1, base |-> delaymem,
                                        len |-> len])
                            ELSE /\ symtbl' = Put(symtbl, Sym(arg1), a.val)
                                 /\ UNCHANGED <<delaymem, regions>>
                         /\ UNCHANGED <<doclamp, status, code, icnt, pl,
                                        jmptbl, program>>

(***************************************************************************)
(* parse: a token that starts no statement is an error, and the tokens up  *)
(* to the next EOF, MNEMONIC, ASSEMBLER, TARGET or LABEL are skipped       *)
(***************************************************************************)
Unexpected ==
    /\ status = "parse"
    /\ source # << >>
    /\ Head(source).type = "INTEGER"
    /\ LET r == Report(ecount, log,
                       <<ParseError("Unexpected", Head(source).type)>>
                       \o ScanMsgs(Tail(source)))
       IN  IF r.exit # 0 THEN ErrorExit(r)
           ELSE /\ ecount' = r.ecount
                /\ log' = r.log
                /\ source' = AfterJunk(Tail(source))
                /\ UNCHANGED <<doclamp, status, code, icnt, pl, jmptbl,
                               symtbl, delaymem, program, regions>>

(***************************************************************************)
(* parse: the first token is fetched before the first statement is read    *)
(***************************************************************************)
Start ==
    /\ status = "parse"
    /\ source # << >>
    /\ Head(source).type = "UNRECOGNISED"
    /\ LET r == Report(ecount, log, ScanMsgs(source))
       IN  IF r.exit # 0 THEN ErrorExit(r)
           ELSE /\ ecount' = r.ecount
                /\ log' = r.log
                /\ source' = AfterJunk(source)
                /\ UNCHANGED <<doclamp, status, code, icnt, pl, jmptbl,
                               symtbl, delaymem, program, regions>>

(***************************************************************************)
(* parse: the skip target patch loop, run when the source is exhausted     *)
(***************************************************************************)
\* mutant: no limit on the distance
SkipPatchNoLimit(iloc, dest) ==
    IF dest > iloc THEN [err |-> 0, oft |-> dest - iloc - 1]
    ELSE [err |-> 1, oft |-> 0]

\* mutant: the offset counts the SKP itself
SkipPatchPlusOne(iloc, dest) ==
    IF dest > iloc
    THEN LET oft == dest - iloc
         IN  IF oft > M6 THEN [err |-> 1, oft |-> oft]
             ELSE [err |-> 0, oft |-> oft]
    ELSE [err |-> 1, oft |-> 0]

\* mutant: a target at the SKP's own address is accepted
SkipPatchSelf(iloc, dest) ==
    IF dest >= iloc
    THEN LET oft == dest - iloc - 1
         IN  IF oft > M6 THEN [err |-> 1, oft |-> oft]
             ELSE [err |-> 0, oft |-> oft]
    ELSE [err |-> 1, oft |-> 0]

\* a SKP at iloc whose target is bound to dest: the offset written, or the
\* error recorded instead
SkipPatch(iloc, dest) ==
    IF dest > iloc
    THEN LET oft == dest - iloc - 1
         IN  IF oft > M6 THEN [err |-> 1, oft |-> oft]
             ELSE [err |-> 0, oft |-> oft]
    ELSE [err |-> 1, oft |-> 0]

\* the error written for a SKP that cannot be patched
SkipPatchMsg(entry) ==
    ParseError(IF entry.target \notin DOMAIN jmptbl
               THEN "Undefined target for SKP"
               ELSE IF jmptbl[entry.target] > entry.addr
               THEN "Offset from SKP too large"
               ELSE "Target does not follow SKP", entry.target)

\* the loop from entry i on: the list, the counter, the log, and whether
\* it exited
RECURSIVE PatchFrom(_, _, _, _)
PatchFrom(i, p, e, lg) ==
    IF i > Len(p) THEN [pl |-> p, ecount |-> e, log |-> lg, exit |-> FALSE]
    ELSE IF p[i].mnemonic = "SKP" /\ p[i].target # None
    THEN LET r == IF p[i].target \in DOMAIN jmptbl
                  THEN SkipPatch(p[i].addr, jmptbl[p[i].target])
                  ELSE [err |-> 1, oft |-> 0]
             t == Report(e, lg, <<SkipPatchMsg(p[i])>>)
         IN  IF r.err = 0
             THEN PatchFrom(i + 1, [p EXCEPT ![i].args[2] = r.oft], e, lg)
             ELSE IF TooMany(e, 1)
                  THEN [pl |-> p, ecount |-> e + 1, log |-> t.log,
                        exit |-> TRUE]
                  ELSE PatchFrom(i + 1, p, e + 1, t.log)
    ELSE PatchFrom(i + 1, p, e, lg)

Patch ==
    /\ status = "parse"
    /\ source = << >>
    /\ LET r == PatchFrom(1, pl, ecount, log)
       IN  /\ pl' = r.pl
           /\ ecount' = r.ecount
           /\ log' = r.log
           /\ status' = IF r.exit THEN "exit" ELSE "patched"
           /\ code' = IF r.exit THEN -2 ELSE code
    /\ UNCHANGED <<source, doclamp, icnt, jmptbl, symtbl, delaymem, program,
                   regions>>

\* mutant: one error is let through
AbortedLate(e) == e > 1

\* the test parse makes of the counter once the patch loop is done
Aborted(e) == e > 0

\* errors in input, assembly aborted
ExitErrors ==
    /\ status = "patched"
    /\ Aborted(ecount)
    /\ status' = "exit"
    /\ code' = -3
    /\ log' = Append(log, Error("errors in input, assembly aborted"))
    /\ UNCHANGED <<source, doclamp, icnt, ecount, pl, jmptbl, symtbl,
                   delaymem, program, regions>>

(***************************************************************************)
(* __mkopcodes__                                                           *)
(***************************************************************************)
\* mutant: the padding loop stops one entry short
PadShort(p) ==
    IF Len(p) < PROGLEN - 1
    THEN p \o [i \in 1..(PROGLEN - 1 - Len(p)) |->
                  Entry("SKP", <<0, 0>>, None, Len(p) + i - 1)]
    ELSE p

\* pad free space with empty SKP instructions: while the count is below
\* PROGLEN an entry is appended at the address of the count
Pad(p) ==
    IF Len(p) < PROGLEN
    THEN p \o [i \in 1..(PROGLEN - Len(p)) |->
                  Entry("SKP", <<0, 0>>, None, Len(p) + i - 1)]
    ELSE p

\* the buffer after struct.pack_into('>I', buf, 4 * (i - 1), op_gen(p[i]))
\* for every entry i of the list that fits the buffer
Encode(p, buf) ==
    LET words == [i \in 1..Len(p) |-> op_gen(p[i].mnemonic, p[i].args)]
    IN  [b \in 1..Len(buf) |->
            IF (b - 1) \div 4 < Len(p)
            THEN ByteOf(words[(b - 1) \div 4 + 1], (b - 1) % 4)
            ELSE buf[b]]

mkopcodes ==
    /\ status = "patched"
    /\ ~Aborted(ecount)
    /\ LET padded == Pad(pl)
       IN  /\ pl' = padded
           /\ program' = Encode(padded, program)
           \* pack_into past the end of the buffer raises struct.error
           /\ status' = IF 4 * Len(padded) > Len(program) THEN "exit"
                        ELSE "done"
           /\ code' = IF 4 * Len(padded) > Len(program) THEN 1 ELSE 0
    /\ log' = Append(log, Info("Read instructions from input"))
    /\ UNCHANGED <<source, doclamp, icnt, ecount, jmptbl, symtbl, delaymem,
                   regions>>

(***************************************************************************)
(* bintoihex and the output file of main().  The command line is the       *)
(* record opts: binary is -b, hexname tells whether the name of the output *)
(* file ends with 'hex', selected whether -p was given and p its value.    *)
(* The content of a binary file is its bytes, that of a hex file its       *)
(* records, one per line of text.                                          *)
(***************************************************************************)
\* the sum of rem bytes of buf from offset c
RECURSIVE ByteTotal(_, _, _)
ByteTotal(buf, c, rem) ==
    IF rem = 0 THEN 0 ELSE buf[c + rem] + ByteTotal(buf, c, rem - 1)

\* ':{rem:02X}{adr:04X}00', the data and (~sum + 1) & M8
DataRecord(buf, c, rem, adr) ==
    [type |-> 0, len |-> rem, adr |-> adr,
     data |-> SubSeq(buf, c + 1, c + rem),
     sum |-> ((M8 + 1)
              - ((rem + ((adr \div (M8 + 1)) % (M8 + 1)) + (adr % (M8 + 1))
                  + ByteTotal(buf, c, rem)) % (M8 + 1))) % (M8 + 1)]

\* ':00000001FF'
EofRecord == [type |-> 1, len |-> 0, adr |-> 0, data |-> << >>, sum |-> M8]

\* convert binary buffer to ihex: one record per width bytes, the last one
\* shorter when the length is no multiple of the width, then the EOF record
bintoihex(buf, spos) ==
    [k \in 1..((Len(buf) + HEXWIDTH - 1) \div HEXWIDTH) |->
        LET c == HEXWIDTH * (k - 1)
        IN  DataRecord(buf, c,
                       IF Len(buf) - c > HEXWIDTH THEN HEXWIDTH
                       ELSE Len(buf) - c,
                       c + spos)]
    \o <<EofRecord>>

\* binary output is forced by -b and by a file name that does not end
\* with 'hex'
BinaryMode(o) == o.binary \/ ~o.hexname

\* the program offset in the output
BaseOft(o) == IF o.selected THEN o.p * PROGBYTES ELSE 0

\* mutant: binary output always truncates the file
WriteBinaryTruncated(old, o, buf) ==
    [i \in 1..(BaseOft(o) + Len(buf)) |->
        IF i > BaseOft(o) THEN buf[i - BaseOft(o)] ELSE 0]

\* seek to the offset of the selected program, or truncate, and write: the
\* bytes around the program stay, a gap before it reads as zeros
WriteBinary(old, o, buf) ==
    IF o.selected
    THEN [i \in 1..(IF Len(old) > BaseOft(o) + Len(buf) THEN Len(old)
                    ELSE BaseOft(o) + Len(buf)) |->
            IF i > BaseOft(o) /\ i <= BaseOft(o) + Len(buf)
            THEN buf[i - BaseOft(o)]
            ELSE IF i <= Len(old) THEN old[i] ELSE 0]
    ELSE buf

\* HEX output - truncate and encode text
WriteHex(old, o, buf) == bintoihex(buf, BaseOft(o))

\* the output file is opened, 'r+b' when it exists and 'w+b' otherwise,
\* written and closed
WriteOutput ==
    /\ status = "done"
    /\ ~outfile.closed
    /\ outfile' =
          [exists |-> TRUE, closed |-> TRUE,
           content |-> IF BinaryMode(opts)
                       THEN WriteBinary(outfile.content, opts, program)
                       ELSE WriteHex(outfile.content, opts, program)]
    /\ UNCHANGED <<source, doclamp, status, code, icnt, ecount, pl, jmptbl,
                   symtbl, delaymem, program, regions, log, opts>>

(***************************************************************************)
(* The sources assembled                                                   *)
(***************************************************************************)
\* the i-th plain instruction of a run of operand-free instructions
Plain(i) ==
    Ins(CASE i % 4 = 0 -> "CLR" [] i % 4 = 1 -> "NOP"
          [] i % 4 = 2 -> "NOT" [] OTHER -> "ABSA", << >>, None)

Fill(n) == [i \in 1..n |-> Plain(i)]

\* all sequences over S of length at most n
RECURSIVE SeqsUpTo(_, _)
SeqsUpTo(S, n) ==
    IF n = 0 THEN {<< >>}
    ELSE LET shorter == SeqsUpTo(S, n - 1)
         IN  shorter \cup {Append(q, x) : q \in shorter, x \in S}

TargetNames == {"A", "B"}

\* SKP and JMP with a symbolic target or an immediate offset (the last one
\* out of range), and the target declarations
Items ==
    {Ins("SKP", <<0>>, "A"), Ins("JMP", << >>, "A"),
     Ins("SKP", <<16, 3>>, None), Ins("SKP", <<0, M6 + 1>>, None)}
    \cup {Tgt(t) : t \in TargetNames}

\* the distances tried between the first item and the second
Gaps == {0, ScenarioGap, M6, M6 + 1}

\* up to MaxItems items, plain instructions before the first and between
\* the first and the second
InsSources ==
    {Fill(a) \o (IF its = << >> THEN << >>
                 ELSE <<Head(its)>> \o Fill(b) \o Tail(its)) :
        a \in 0..MaxLead, b \in Gaps, its \in SeqsUpTo(Items, MaxItems)}

\* plain programs around the program length, and one with more excess
\* instructions than the error limit
FillSources ==
    {Fill(n) : n \in {PROGLEN - 1, PROGLEN, PROGLEN + 1, PROGLEN + MAXERR + 1}}

LabelNames == {"X", "Y"}

MemSizes == {0, ScenarioGap, ScenarioLen, DELAYSIZE, DELAYSIZE + 1, -1}

DeclStmts ==
    {Asm("MEM", x, n) : x \in LabelNames, n \in MemSizes}
    \cup {Asm("EQU", "X", ScenarioGap), Asm("MEM", "RDAL", ScenarioGap)}

DeclSources == SeqsUpTo(DeclStmts, MaxDecls)

\* declarations between instructions and targets
MixedSources ==
    {<<i, d, j>> : i \in Items, d \in DeclStmts, j \in Items}

\* a target named like a symbol, before or after a declaration
SymbolTargets == {"X", "REG0", "RUN"}

TargetSources ==
    LET decls == {Asm("EQU", "X", ScenarioGap), Asm("MEM", "X", ScenarioGap)}
    IN  {<<Tgt(n)>> : n \in SymbolTargets}
        \cup {<<d, Tgt(n)>> : d \in decls, n \in SymbolTargets}
        \cup {<<Tgt(n), d>> : d \in decls, n \in SymbolTargets}

\* the statements scanned from a declaration of a name, written with the
\* label or with the keyword first: a name that is a mnemonic is scanned
\* as MNEMONIC and not as LABEL
Declaration(first, typ, name, val) ==
    IF name \in Mnemonics
    THEN IF first = "label"
         THEN <<Ins(name, << >>, None), AsmKw(typ), Stray(val)>>
         ELSE <<AsmKw(typ), Ins(name, <<val>>, None)>>
    ELSE <<Asm(typ, name, val)>>

\* declarations of the reserved names, alone and after a delay of X
ReservedSources ==
    {pre \o Declaration(first, typ, name, ScenarioGap) :
        pre \in {<< >>, <<Asm("MEM", "X", ScenarioLen)>>},
        first \in {"label", "keyword"}, typ \in {"EQU", "MEM"},
        name \in Reserved}

\* 'EQU Z Y' between two definitions of Y, then a use of Z and of Y; Z is
\* bound by no other statement of any source
AliasSources ==
    {<<Asm("EQU", "Y", ScenarioGap), AsmL("EQU", "Z", "Y"),
       Asm("EQU", "Y", ScenarioLen), InsL("OR", <<"Z">>),
       InsL("OR", <<"Y">>)>>}

\* 'P EQU Q' and 'Q EQU P', in either order; P and Q are bound by no other
\* statement of any source
CycleSources ==
    {<<AsmL("EQU", "P", "Q"), AsmL("EQU", "Q", "P")>>,
     <<AsmL("EQU", "Q", "P"), AsmL("EQU", "P", "Q")>>}

\* a statement that records one parse error: the offset is out of range
ErrStmt == Ins("SKP", <<0, M6 + 1>>, None)

\* unrecognised characters and erroneous statements, MAXERR or MAXERR + 1
\* errors in either order, alone or after a target or an erroneous statement,
\* then an instruction;
\* and MAXERR unrecognised characters before a SKP to an undefined target
JunkSources ==
    {pre \o Times(j, Junk) \o Times(n - j, ErrStmt) \o <<Plain(0)>> :
        pre \in {<< >>, <<Tgt("A")>>, <<ErrStmt, Plain(0)>>},
        n \in {MAXERR, MAXERR + 1},
        j \in 0..(MAXERR + 1)}
    \cup {Times(n - j, ErrStmt) \o Times(j, Junk) \o <<Plain(0)>> :
            n \in {MAXERR, MAXERR + 1}, j \in 0..(MAXERR + 1)}
    \cup {Times(MAXERR, Junk) \o <<Ins("SKP", <<0>>, "B")>>}

\* operand values around the range 0..mask of a field
Around(mask) == {-1, 0, 1, mask, mask + 1}

\* delay addresses and ramp frequencies, around the int and float bounds
Addresses == {-(M15 + 2), -(M15 + 1), -2, -1, 0, 1, M15, M15 + 1}

\* floats, as multiples of 1 / REF_S_15: -2.0, -1.0, -0.5, 1 / REF_S_15,
\* 0.5, the largest below 1.0, 1.0, 1.5 and 2.0
Reals ==
    {-2 * REF_S_15, MIN_S_15, -(REF_S_15 \div 2), 1, REF_S_15 \div 2,
     MAX_S_15, REF_S_15, REF_S_15 + REF_S_15 \div 2, 2 * REF_S_15}

\* the low 31 bits of the words written with RAW: 0, 1, 0x5EADBEEF (those
\* of 0xDEADBEEF) and 2^31 - 1
RawLow == {0, 1, 1588444911, Pow2(30) + (Pow2(30) - 1)}

\* one instruction, each operand in turn around the bounds of its coercer
\* while the others are 0
OperandStmts ==
    {Ins(m, <<v>>, None) : m \in {"AND", "OR", "XOR"}, v \in Around(M24)}
    \cup {Ins("RMPA", <<v>>, None) : v \in Around(M11)}
    \cup {Ins(m, <<v, w>>, None) :
            m \in {"SOF", "EXP", "LOG"}, v \in Around(M16), w \in Around(M11)}
    \cup {Ins("RDAX", <<r, v>>, None) : r \in Around(M6), v \in Around(M16)}
    \cup {Ins(m, <<a, 0>>, None) :
            m \in {"RDA", "WRA", "WRAP"}, a \in Addresses}
    \cup {Ins("RDA", <<0, v>>, None) : v \in Around(M11)}
    \cup {Ins("WLDS", <<0, 0, a>>, None) : a \in Addresses}
    \cup {Ins("WLDS", <<0, v, 0>>, None) : v \in Around(M9)}
    \cup {Ins("WLDR", <<0, a, 0>>, None) : a \in Addresses}
    \cup {Ins("WLDR", <<0, 0, a>>, None) : a \in {-1, 0, 3, 4, 512, 4096}}
    \cup {Ins(m, <<v>>, None) : m \in {"JAM", "MULX", "JMP"}, v \in Around(3)}
    \cup {Ins("MULX", <<v>>, None) : v \in Around(M6)}
    \cup {Ins("LDAX", <<v>>, None) : v \in Around(M6)}
    \cup {InsL("LDAX", <<"REG0">>), InsR("LDAX", <<REF_S_15>>, {1})}
    \cup {Ins("SKP", <<0, v>>, None) : v \in Around(M6)}
    \cup {Ins("SKP", <<v, 0>>, None) : v \in Around(M5)}
    \cup {Ins("RAW", <<v>>, None) : v \in {-1} \cup RawLow}
    \cup {RawWide(lo) : lo \in RawLow}
    \cup {InsR("SOF", <<REF_S_15, 0>>, {1, 2})}
    \cup {Cho(t, <<0, 0, v>>) : t \in {"RDA", "SOF"}, v \in Around(M16)}
    \cup {Cho("RDA", <<l, v, 0>>) : l \in Around(3), v \in Around(M6)}
    \cup {Cho("RDAL", <<l>>) : l \in Around(3)}
    \cup {InsR(m, <<q, 0>>, {1}) : m \in {"RDA", "SOF", "SKP"}, q \in Reals}
    \cup {InsR(m, <<q>>, {1}) : m \in {"AND", "RMPA", "RAW", "JAM"}, q \in Reals}
    \cup {InsR("WLDR", <<0, q, 0>>, {2}) : q \in Reals}
    \cup {InsR("WLDS", <<0, 0, q>>, {3}) : q \in Reals}

OperandSources == {<<st>> : st \in OperandStmts}

\* an instruction whose operands are the label U, which no statement of any
\* source binds, alone and before a target
UndefinedSources ==
    {<<InsL(m[1], m[2])>> \o t :
        m \in {<<"OR", <<"U">>>>, <<"JAM", <<"U">>>>, <<"RAW", <<"U">>>>,
               <<"SOF", <<"U", "U">>>>, <<"WLDS", <<"U", "U", "U">>>>,
               <<"WLDR", <<"U", "U", "U">>>>},
        t \in {<< >>, <<Tgt("A")>>}}

\* SKP and JMP to X or REG0, X bound by EQU before the skip, after it or
\* not at all, and declared as a target or not; an integer may follow the
\* name of the target
SkipSources ==
    {pre \o <<s>> \o mid \o Fill(ScenarioGap) \o post :
        pre \in {<< >>, <<Asm("EQU", "X", ScenarioGap)>>},
        s \in {Ins("SKP", <<0>>, "X"), Ins("JMP", << >>, "X"),
               Ins("SKP", <<0>>, "REG0"), Ins("JMP", << >>, "REG0")},
        mid \in {<< >>, <<Stray(1)>>},
        post \in {<< >>, <<Tgt("X")>>, <<Asm("EQU", "X", 1)>>,
                  <<Tgt("X"), Asm("EQU", "X", 1)>>}}

\* the ints and the floats (-2.0, 0.0, 0.5 and 2.0, as multiples of
\* 1 / REF_S_15) that expressions are made of
ExprInts == {-2, -1, 0, 2, 4}

ExprReals == {-2 * REF_S_15, 0, REF_S_15 \div 2, 2 * REF_S_15}

\* the literals as operands: <<value, type is float>>
ExprLiterals == (ExprInts \X {FALSE}) \cup (ExprReals \X {TRUE})

Literal(l) == IF l[2] THEN PyFloat(l[1], REF_S_15) ELSE PyInt(l[1])

\* a fractional power of a positive number is taken of perfect squares only
Exact(op, a, b) ==
    (op = "**" /\ b.den # 1 /\ a.num > 0)
    => /\ \E r \in 0..a.num : r * r = a.num
       /\ \E r \in 0..a.den : r * r = a.den

\* 'OR left op right' and 'OR op left': one operator on literals
ExprStmts ==
    {InsE("OR", x[1][1], IF x[1][2] THEN {1} ELSE {}, x[3], Literal(x[2])) :
        x \in {y \in ExprLiterals \X ExprLiterals \X BinaryOps :
                 Exact(y[3], Literal(y[1]), Literal(y[2]))}}
    \cup {InsE("OR", l[1], IF l[2] THEN {1} ELSE {}, op, PyInt(0)) :
            l \in ExprLiterals, op \in UnaryOps}

ExprSources == {<<st>> : st \in ExprStmts}

Inputs ==
    ((InsSources \cup FillSources \cup MixedSources \cup TargetSources
      \cup ReservedSources \cup AliasSources \cup CycleSources
      \cup JunkSources \cup ExprSources \cup UndefinedSources
      \cup SkipSources) \X {FALSE})
    \cup ((DeclSources \cup OperandSources) \X BOOLEAN)

(***************************************************************************)
(* fv1parse.__init__ and the specification                                 *)
(***************************************************************************)
\* the state of a new fv1parse object on a source
Parser(src, clamp) ==
    /\ source = src
    /\ doclamp = clamp
    /\ status = "parse"
    /\ code = 0
    /\ icnt = 0
    /\ ecount = 0
    /\ pl = << >>
    /\ jmptbl = << >>
    /\ symtbl = InitSymtbl
    /\ delaymem = 0
    /\ program = [b \in 1..PROGBYTES |-> 0]
    /\ regions = << >>
    /\ log = << >>

\* the output file does not exist
NoFile == [exists |-> FALSE, closed |-> FALSE, content |-> << >>]

\* a command line without options
NoOptions ==
    [binary |-> FALSE, hexname |-> FALSE, selected |-> FALSE, p |-> 0]

Init ==
    /\ \E in \in Inputs : Parser(in[1], in[2])
    /\ opts = NoOptions
    /\ outfile = NoFile

Next ==
    \/ Target /\ UNCHANGED <<opts, outfile>>
    \/ Instruction /\ UNCHANGED <<opts, outfile>>
    \/ Assembler /\ UNCHANGED <<opts, outfile>>
    \/ Unexpected /\ UNCHANGED <<opts, outfile>>
    \/ Start /\ UNCHANGED <<opts, outfile>>
    \/ Patch /\ UNCHANGED <<opts, outfile>>
    \/ ExitErrors /\ UNCHANGED <<opts, outfile>>
    \/ mkopcodes /\ UNCHANGED <<opts, outfile>>

Spec == Init /\ [][Next]_vars

(***************************************************************************)
(* main(): one source is assembled and the program written to the output   *)
(* file                                                                    *)
(***************************************************************************)
\* the command lines: -b or not, an output name that ends with 'hex' or
\* not, and -p absent or any of the target program numbers
Options ==
    {[binary |-> b, hexname |-> h, selected |-> FALSE, p |-> 0] :
        b \in BOOLEAN, h \in BOOLEAN}
    \cup {[binary |-> b, hexname |-> h, selected |-> TRUE, p |-> n] :
             b \in BOOLEAN, h \in BOOLEAN, n \in 0..(PROGRAMS - 1)}

\* an existing file of n programs, every byte M8, of the kind the command
\* line asks for
OldBytes(n) == [i \in 1..(n * PROGBYTES) |-> M8]

OldFile(o, n) ==
    [exists |-> TRUE, closed |-> FALSE,
     content |-> IF BinaryMode(o) THEN OldBytes(n)
                 ELSE bintoihex(OldBytes(n), 0)]

\* the sizes of the existing file, in programs
OldSizes == {0, 1, PROGRAMS - 1, PROGRAMS}

\* a source that assembles and one that does not
OutputSources ==
    {<<Ins("JMP", << >>, "A"), Asm("MEM", "X", ScenarioLen), Tgt("A"),
       Ins("RAW", <<1>>, None)>>,
     <<Junk, Stray(0)>>}

OutputInit ==
    /\ \E src \in OutputSources : Parser(src, FALSE)
    /\ opts \in Options
    /\ outfile \in {NoFile} \cup {OldFile(opts, n) : n \in OldSizes}

OutputNext ==
    \/ Next
    \/ WriteOutput

OutputSpec == OutputInit /\ [][OutputNext]_vars

(***************************************************************************)
(* Properties                                                              *)
(***************************************************************************)
\* the four bytes of the image at word slot k (0-based)
WordBytes(k) == [j \in 1..4 |-> program[4 * k + j]]

\* bit b (0 the least significant) of the big-endian word at slot k
ImageBit(k, b) == (program[4 * k + 4 - b \div 8] \div Pow2(b % 8)) % 2 = 1

\* C1: every successful assembly, of n = icnt <= 128 parsed instructions,
\* leaves an image of exactly 128 big-endian 32 bit words, 512 bytes: one
\* word per entry of the padded parse list, most significant byte first
C1_ImageSize ==
    status = "done" =>
        /\ icnt <= PROGLEN
        /\ Len(program) = PROGBYTES
        /\ PROGBYTES = 4 * PROGLEN
        /\ Len(pl) = PROGLEN
        /\ \A k \in 0..(PROGLEN - 1) :
              LET w == op_gen(pl[k + 1].mnemonic, pl[k + 1].args)
              IN  \A b \in 0..31 : ImageBit(k, b) <=> b \in w

\* a full program of 128 instructions was assembled
C1_Witness == status = "done" /\ icnt = PROGLEN

\* C2 as stated: every slot from n on holds 0x88000000
C2_PaddingOriginal ==
    status = "done" =>
        \A k \in icnt..(PROGLEN - 1) : WordBytes(k) = <<136, 0, 0, 0>>

\* C2, amended: after a successful assembly of n < 128 instructions every
\* word slot k, n <= k <= 127, holds SKP 0,0, whose value is 0x00000011
C2_Padding ==
    status = "done" =>
        \A k \in icnt..(PROGLEN - 1) : WordBytes(k) = <<0, 0, 0, 17>>

\* the empty source was assembled
C2_Witness == status = "done" /\ icnt = 0 /\ WordBytes(PROGLEN - 1)[4] = 17

\* an instruction is about to be parsed
AtInstruction ==
    status = "parse" /\ source # << >> /\ Head(source).type = "MNEMONIC"

\* C3: an instruction parsed with icnt >= 128 records an error, one with
\* icnt < 128, no operands and nothing unrecognised after it records none
\* (so 128 instructions are accepted), and no image is made of more than
\* 128 parsed instructions
C3_MaxProgram ==
    /\ [](status = "done" =>
            icnt <= PROGLEN /\ Len(pl) <= PROGLEN /\ ecount = 0)
    /\ [][AtInstruction =>
            /\ icnt >= PROGLEN => ecount' > ecount
            /\ (/\ icnt < PROGLEN
                /\ Head(source).stxt \in {"CLR", "NOP", "NOT", "ABSA"}
                /\ JunkRun(Tail(source)) = 0)
                  => ecount' = ecount]_vars

\* 129 instructions: the last one is the only error, and assembly fails
C3_Witness ==
    /\ status = "exit" /\ code = -3
    /\ icnt = PROGLEN + 1 /\ ecount = 1

\* a MEM declaration of a label that may be defined is about to be parsed
AtMem ==
    /\ status = "parse" /\ source # << >>
    /\ Head(source).type = "ASSEMBLER" /\ Head(source).stxt = "MEM"
    /\ Head(source).label # None /\ Head(source).label \notin Reserved

\* C4 as stated: the cursor never exceeds DELAYSIZE
C4_DelaymemOriginal == delaymem <= DELAYSIZE

\* C4, amended: while no error has been recorded, up to and after the last
\* MEM declaration of an assembly without errors, the cursor does not
\* exceed DELAYSIZE + 1 = 32768
C4_Delaymem == ecount = 0 => delaymem <= DELAYSIZE + 1

\* an assembly succeeded with the cursor one past the last cell
C4_Witness == status = "done" /\ ecount = 0 /\ delaymem = DELAYSIZE + 1

\* C5: right after 'X MEM n', 0 <= n <= 32767, X is the cursor's value
\* before the declaration, X# - X = n and X^ = X + floor(n / 2)
C5_MemTriple ==
    [][(AtMem /\ Head(source).args[1] \in 0..DELAYSIZE /\ status' = "parse")
        => LET X == Head(source).label
               n == Head(source).args[1]
               base == symtbl'[Sym(X)]
               mid == symtbl'[SymMid(X)]
           IN  /\ base = delaymem
               /\ symtbl'[SymTop(X)] - base = n
               /\ 2 * (mid - base) <= n
               /\ n < 2 * (mid - base) + 2]_vars

\* the first declaration was 'X MEM 100': X = 0, X# = 100, X^ = 50
C5_Witness ==
    /\ Len(regions) = 1 /\ regions[1].name = "X"
    /\ symtbl[Sym("X")] = 0
    /\ symtbl[SymTop("X")] = ScenarioLen
    /\ symtbl[SymMid("X")] = ScenarioLen \div 2

\* the top address of a declared region
RegionTop(r) == r.base + r.len

\* C6 as stated: each region starts n + 1 above the one before, and the
\* ranges [base, base + n] are separated by exactly one unused cell
C6_RegionsOriginal ==
    \A k \in 1..(Len(regions) - 1) :
        /\ regions[k + 1].base = regions[k].base + regions[k].len + 1
        /\ regions[k + 1].base - RegionTop(regions[k]) - 1 = 1

\* C6, amended: the first region has base 0, each later base is the one
\* before + n + 1, the cursor advances by n + 1 per declaration and no
\* other statement changes it, so the ranges [base, base + n] never overlap
\* and are adjacent: each base is one above the top address before it
C6_Regions ==
    /\ [](/\ regions # << >> => regions[1].base = 0
          /\ \A k \in 1..(Len(regions) - 1) :
                /\ regions[k + 1].base
                      = regions[k].base + regions[k].len + 1
                /\ regions[k + 1].base - RegionTop(regions[k]) = 1
          /\ \A j, k \in 1..Len(regions) :
                j < k => RegionTop(regions[j]) < regions[k].base
          /\ delaymem = IF regions = << >> THEN 0
                        ELSE RegionTop(regions[Len(regions)]) + 1)
    /\ [][/\ (AtMem /\ status' = "parse") =>
               LET X == Head(source).label
               IN  /\ symtbl'[Sym(X)] = delaymem
                   /\ delaymem' = symtbl'[SymTop(X)] + 1
                   /\ regions' = Append(regions,
                         [name |-> X, base |-> symtbl'[Sym(X)],
                          len |-> symtbl'[SymTop(X)] - symtbl'[Sym(X)]])
          /\ ~AtMem => delaymem' = delaymem /\ regions' = regions]_vars

\* two regions, the second starting right above the 100 cell first one
C6_Witness ==
    /\ Len(regions) = 2 /\ ecount = 0
    /\ regions[1].len = ScenarioLen
    /\ regions[2].base = ScenarioLen + 1

\* C7: a MEM declaration of length n (after range handling) records an
\* error when the cursor exceeds 32767 or cursor + n exceeds 32767, so
\* while no error is recorded every top label name# is at most 32767
C7_MemExhausted ==
    /\ [](ecount = 0 =>
            \A k \in DOMAIN symtbl : k[2] = "#" => symtbl[k] <= DELAYSIZE)
    /\ [][AtMem =>
            LET n == MemLength(Head(source).args[1])
            IN  (delaymem > DELAYSIZE \/ delaymem + n > DELAYSIZE)
                    => ecount' > ecount]_vars

\* the second declaration asked for more than was left, and assembly failed
C7_Witness ==
    /\ status = "exit" /\ code = -3 /\ ecount = 1
    /\ Len(regions) = 2
    /\ regions[2].base <= DELAYSIZE
    /\ RegionTop(regions[2]) > DELAYSIZE

\* the entries of the parse list that are a SKP (or JMP) to a named target
SymbolicSkips ==
    {i \in 1..Len(pl) : pl[i].mnemonic = "SKP" /\ pl[i].target # None}

\* bits 21..26 of the image word at slot k: the offset field of a SKP
OffsetField(k) == (program[4 * k + 1] % 8) * 8 + program[4 * k + 2] \div 32

\* the distance from the SKP of entry i to its target
Distance(i) == jmptbl[pl[i].target] - pl[i].addr

\* C8 as stated: the distance of every symbolic SKP of a successful
\* assembly is between 1 and 63, and its offset field holds d - 1
C8_SkipDistanceOriginal ==
    status = "done" =>
        \A i \in SymbolicSkips :
            /\ pl[i].target \in DOMAIN jmptbl
            /\ 1 <= Distance(i) /\ Distance(i) <= M6
            /\ OffsetField(pl[i].addr) = Distance(i) - 1

\* C8, amended: in every successful assembly every symbolic SKP or JMP has
\* a forward distance d with 1 <= d <= 64, and its 6 bit offset field
\* holds d - 1
C8_SkipDistance ==
    status = "done" =>
        \A i \in SymbolicSkips :
            /\ pl[i].target \in DOMAIN jmptbl
            /\ 1 <= Distance(i) /\ Distance(i) <= M6 + 1
            /\ OffsetField(pl[i].addr) = Distance(i) - 1

\* a SKP 64 instructions before its target was assembled, its field 63
C8_Witness ==
    /\ status = "done"
    /\ \E i \in SymbolicSkips :
          Distance(i) = M6 + 1 /\ OffsetField(pl[i].addr) = M6

\* C9: once patching has ended without error, the offset of every
\* symbolic SKP or JMP in the parse list is jmptbl[target] - address - 1,
\* a value from 0 to 63, wherever the target was declared
C9_SkipOffset ==
    (status \in {"patched", "done"} /\ ecount = 0) =>
        \A i \in SymbolicSkips :
            /\ pl[i].target \in DOMAIN jmptbl
            /\ pl[i].args[2] = jmptbl[pl[i].target] - pl[i].addr - 1
            /\ pl[i].args[2] \in 0..M6

\* five instructions between the SKP and its target: offset 5
C9_Witness ==
    /\ status = "done"
    /\ \E i \in SymbolicSkips :
          /\ jmptbl[pl[i].target] = pl[i].addr + ScenarioGap + 1
          /\ pl[i].args[2] = ScenarioGap

\* the symbolic skips the patch loop must refuse: target not in the jump
\* table, or d = jmptbl[t] - addr - 1 at most -1 or above 63
BadSkips ==
    {i \in SymbolicSkips :
        \/ pl[i].target \notin DOMAIN jmptbl
        \/ jmptbl[pl[i].target] - pl[i].addr - 1 <= -1
        \/ jmptbl[pl[i].target] - pl[i].addr - 1 > M6}

\* the whole source is read and the patch loop is about to run
AtPatch == status = "parse" /\ source = << >>

\* C10: the patch loop records an error for every such skip (up to the
\* error limit) and leaves its entry as it was, and an assembly holding
\* one never reaches the encoder: the program buffer stays unwritten
C10_PatchErrors ==
    /\ []((source = << >> /\ BadSkips # {}) =>
            /\ status # "done"
            /\ status # "parse" => ecount > 0
            /\ program = [b \in 1..PROGBYTES |-> 0])
    /\ [][AtPatch =>
            /\ ecount' = IF ecount + Cardinality(BadSkips) > MAXERR
                         THEN MAXERR + 1
                         ELSE ecount + Cardinality(BadSkips)
            /\ \A i \in BadSkips : pl'[i] = pl[i]
            /\ BadSkips # {} => status' = "exit" \/ ecount' > 0]_vars

\* 'a: SKP 0, a': the target is the SKP's own address, assembly failed
C10_Witness ==
    /\ status = "exit" /\ code = -3 /\ ecount = 1
    /\ \E i \in SymbolicSkips :
          /\ pl[i].target \in DOMAIN jmptbl
          /\ jmptbl[pl[i].target] = pl[i].addr
          /\ pl[i].args[2] = 0

\* the line m is in the log
Logged(m) == \E i \in 1..Len(log) : log[i] = m

\* the step writes the line m
Writes(m) == \E i \in (Len(log) + 1)..Len(log') : log'[i] = m

\* a target declaration is about to be parsed
AtTarget ==
    status = "parse" /\ source # << >> /\ Head(source).type = "TARGET"

C12_TargetIsSymbol ==
    /\ [][(AtTarget /\ Sym(Head(source).stxt) \in DOMAIN symtbl) =>
            /\ Writes(ParseError("Target already assigned",
                                 Head(source).stxt))
            /\ ecount' > ecount]_vars
    /\ [][ecount' >= ecount]_vars
    /\ [](ecount > 0 => status # "done")

\* 'REG0:' was declared, and assembly failed
C12_Witness ==
    /\ status = "exit" /\ code = -3
    /\ Logged(ParseError("Target already assigned", "REG0"))
    /\ program = [b \in 1..PROGBYTES |-> 0]

\* the tokens of an EQU or MEM that names RDA, SOF or RDAL are about to be
\* parsed: the declaration of RDAL, the keyword before the mnemonic RDA or
\* SOF, or the mnemonic RDA or SOF before the keyword
AtReserved ==
    /\ status = "parse" /\ source # << >>
    /\ \/ Head(source).type = "ASSEMBLER" /\ Head(source).label \in Reserved
       \/ /\ Head(source).type = "ASSEMBLER" /\ Head(source).label = None
          /\ Len(source) >= 2
          /\ source[2].type = "MNEMONIC" /\ source[2].stxt \in Reserved
       \/ /\ Head(source).type = "MNEMONIC"
          /\ Head(source).stxt \in Reserved
          /\ Head(source).args = << >>
          /\ Len(source) >= 2
          /\ source[2].type = "ASSEMBLER" /\ source[2].label = None

\* C13: an EQU or MEM that names RDA, SOF or RDAL, label first or keyword
\* first, records at least one error and leaves the symbol table and the
\* cursor delaymem as they were; RDA, SOF and RDAL are 0, 2 and 3 throughout
C13_ReservedNames ==
    /\ [](/\ symtbl[Sym("RDA")] = 0
          /\ symtbl[Sym("SOF")] = 2
          /\ symtbl[Sym("RDAL")] = 3)
    /\ [][AtReserved =>
            /\ ecount' > ecount
            /\ symtbl' = symtbl
            /\ delaymem' = delaymem]_vars

\* 'X MEM 100' then a MEM of RDAL: refused, the cursor still 101
C13_Witness ==
    /\ status = "exit" /\ code = -3
    /\ Logged(ParseError("Reserved label cannot be re-defined", "RDAL"))
    /\ delaymem = ScenarioLen + 1
    /\ Sym("X") \in DOMAIN symtbl

\* C14 as stated: Z, bound by 'EQU Z Y', evaluates to the value Y has at
\* the time of the reference, also after Y is bound again
C14_LazyAlias ==
    (Sym("Z") \in DOMAIN symtbl /\ Sym("Y") \in DOMAIN symtbl)
        => deref("Z") = deref("Y")

\* C15 as stated: an assembly of 'P EQU Q' and 'Q EQU P' ends without an
\* image, with a non-zero status and a 'Circular definition' parse error
C15_CircularDefinition ==
    (/\ status \in {"exit", "done"}
     /\ Sym("P") \in DOMAIN symtbl /\ Sym("Q") \in DOMAIN symtbl)
        => /\ status = "exit" /\ code # 0
           /\ program = [b \in 1..PROGBYTES |-> 0]
           /\ \E i \in 1..Len(log) :
                 /\ log[i][1] = "parse error"
                 /\ log[i][2] = "Circular definition of label"

\* the number of lines of lg written by scanerror and parseerror
ErrorLines(lg) == Cardinality({i \in 1..Len(lg) : IsError(lg[i])})

\* the last line of lg written by scanerror or parseerror
LastError(lg) ==
    lg[CHOOSE i \in 1..Len(lg) :
        IsError(lg[i]) /\ \A j \in (i + 1)..Len(lg) : ~IsError(lg[j])]

\* C16: scan errors and parse errors are counted by one counter, which is
\* the number of error lines written; a step is taken only while the counter
\* is at most MAXERR and the run has not exited, so nothing is processed
\* after the error that exceeds the limit; the counter never exceeds
\* MAXERR + 1, and it reaches MAXERR + 1 exactly when the run exits with
\* status -1 or -2: -1 when that last error is a scan error and -2 when it
\* is a parse error (of parsing or of the skip target patch loop)
C16_ErrorLimit ==
    [][/\ status # "exit"
       /\ ecount <= MAXERR
       /\ ecount' = ErrorLines(log')
       /\ ecount' <= MAXERR + 1
       /\ (ecount' = MAXERR + 1) <=> (status' = "exit" /\ code' \in {-1, -2})
       /\ (ecount' = MAXERR + 1) =>
            code' = (IF LastError(log')[1] = "scan error" THEN -1 ELSE -2)]_vars

\* a run ended by a scan error that followed parse errors
C16_Witness ==
    /\ status = "exit" /\ code = -1 /\ ecount = MAXERR + 1
    /\ \E i \in 1..Len(log) : log[i][1] = "parse error"

\* C17: when parsing and the patch loop are done, a counter of 0 leads to
\* the encoder, which writes the program buffer and ends the run with
\* status 0, whatever warnings were written; a counter of 1 to MAXERR leads
\* to exit status -3 with the instruction list and the program buffer
\* untouched; and the buffer is written by no other step
C17_ImageIffNoErrors ==
    [][/\ status = "patched" =>
            IF ecount = 0
            THEN /\ status' = "done" /\ code' = 0
                 /\ program' = Encode(Pad(pl), program)
                 /\ program' # program
            ELSE /\ ecount \in 1..MAXERR
                 /\ status' = "exit" /\ code' = -3
                 /\ pl' = pl /\ program' = program
       /\ status # "patched" =>
            /\ program' = program
            /\ status' # "done" /\ code' # -3]_vars

\* an image generated although a warning was written
C17_Witness ==
    /\ status = "done" /\ ecount = 0
    /\ program # [b \in 1..PROGBYTES |-> 0]
    /\ \E i \in 1..Len(log) : log[i][1] = "warning"

\* an instruction is about to be parsed and the step appends its entry
InstructionStep ==
    /\ status = "parse" /\ source # << >>
    /\ Head(source).type = "MNEMONIC"
    /\ Len(pl') = Len(pl) + 1

\* the fixed point operands of a statement: the operand i, its place k in
\* the entry, the largest value of its field of W bits and its format
FixedFields(st) ==
    LET F(i, k, mask, fmt) == [i |-> i, k |-> k, mask |-> mask, fmt |-> fmt]
    IN  CASE st.stxt \in {"AND", "OR", "XOR"} -> {F(1, 1, M24, "S_23")}
          [] st.stxt \in {"SOF", "EXP", "LOG"} ->
                {F(1, 1, M16, "S1_14"), F(2, 2, M11, "S_10")}
          [] st.stxt \in {"RDAX", "WRAX", "MAXX", "RDFX", "WRLX", "WRHX"} ->
                {F(2, 2, M16, "S1_14")}
          [] st.stxt \in {"RDA", "WRA", "WRAP"} -> {F(2, 2, M11, "S1_9")}
          [] st.stxt = "RMPA" -> {F(1, 1, M11, "S1_9")}
          [] st.stxt = "CHO" /\ st.label \in {"RDA", "SOF"} ->
                {F(3, 4, M16, "S_15")}
          [] OTHER -> {}

\* the fixed point operands of st that are written and int typed
IntFields(st) ==
    {f \in FixedFields(st) :
        /\ f.i <= Len(st.args) /\ f.i \notin st.real
        /\ f.i \notin DOMAIN st.expr
        /\ st.refs[f.i] # None => Sym(st.refs[f.i]) \in DOMAIN symtbl}

\* the int value of operand i
IntValue(st, i) == IF st.refs[i] = None THEN st.args[i] ELSE deref(st.refs[i])

\* every operand of st is a literal, 0 unless it is a fixed point operand,
\* and nothing but the operands can be reported
OnlyFixed(st) ==
    /\ Len(st.args) = Len(Signature(st))
    /\ \A i \in 1..Len(st.args) :
          /\ st.refs[i] = None
          /\ (\E f \in IntFields(st) : f.i = i) \/ (st.args[i] = 0 /\ i \notin st.real)
    /\ st.stxt = "CHO" => st.label \in {"RDA", "SOF"}
    /\ st.expr = << >>
    /\ icnt < PROGLEN
    /\ JunkRun(Tail(source)) = 0

\* C18: an int typed operand v of a fixed point coercer (S1_14 and S_15 of
\* 16 bits, S1_9 and S_10 of 11 bits, S_23 of 24 bits): within 0..2^W - 1
\* the field of the entry is v and neither the warning nor the error of the
\* coercer is written; outside, with clamp the field is 0 for a negative v
\* and 2^W - 1 for a large one and the warning is written and not the error,
\* and without clamp the error is written and the field is 0.  When nothing
\* else in the statement can be reported, the lines written are these, and
\* the counter rises by the number of errors among them.
C18_FixedPointInteger ==
    [][InstructionStep =>
        LET st == Head(source)
            entry == pl'[Len(pl')]
            out == {f \in IntFields(st) :
                        IntValue(st, f.i) < 0 \/ IntValue(st, f.i) > f.mask}
        IN  /\ \A f \in IntFields(st) :
                  LET v == IntValue(st, f.i)
                      warned == Writes(ParseWarn(f.fmt \o " arg clamped",
                                                 st.stxt))
                      failed == Writes(ParseError(f.fmt \o " arg out of range",
                                                  st.stxt))
                  IN  IF f \notin out
                      THEN entry.args[f.k] = v /\ ~warned /\ ~failed
                      ELSE IF doclamp
                      THEN /\ entry.args[f.k] = (IF v < 0 THEN 0 ELSE f.mask)
                           /\ warned /\ ~failed
                      ELSE entry.args[f.k] = 0 /\ failed /\ ~warned
            /\ OnlyFixed(st) =>
                  /\ Len(log') = Len(log) + Cardinality(out)
                  /\ ecount' = ecount + (IF doclamp THEN 0
                                         ELSE Cardinality(out))]_vars

\* both operands of a SOF clipped under clamp, to 2^16 - 1 and to 0
C18_Witness ==
    /\ doclamp /\ ecount = 0
    /\ Len(pl) >= 1 /\ pl[1].mnemonic = "SOF" /\ pl[1].args = <<M16, 0>>
    /\ Logged(ParseWarn("S1_14 arg clamped", "SOF"))
    /\ Logged(ParseWarn("S_10 arg clamped", "SOF"))

\* a float q / REF_S_15 lies outside the format of one sign bit, n integer
\* bits and d fraction bits, [-2^n, (2^(n+d) - 1) / 2^d]
RealOut(q, n, d) ==
    \/ q < -Pow2(n) * REF_S_15
    \/ q > (IF d >= FRAC_S_15 THEN (Pow2(n + d) - 1) \div Pow2(d - FRAC_S_15)
            ELSE (Pow2(n + d) - 1) * Pow2(FRAC_S_15 - d))

\* the coercers that clip under clamp, and those that have no clamp branch
Clamping ==
    {"s_23", "s1_14", "s_10", "s1_9", "s_15a", "d_15", "lfo_sinfreq",
     "lfo_rampfreq", "u_32"}
Strict ==
    {"register", "offset", "condition", "lfo", "choflags", "lfo_rampamp"}

\* the value is of a type the coercer takes: the coercers of small ints
\* refuse a float that is no integer, and U32 every float, as invalid
Typed(name, v, real) ==
    CASE name \in Strict \cup {"lfo_sinfreq"} -> IntegerValued(v, real)
      [] name = "u_32" -> ~real
      [] OTHER -> TRUE

\* the value is outside the range of the coercer
OutOfRange(name, v, real) ==
    LET n == IntOf(v, real)
        IntOut(mask) == ~real /\ (v < 0 \/ v > mask)
    IN  CASE name = "s_23" -> IntOut(M24) \/ (real /\ RealOut(v, 0, 23))
          [] name = "s1_14" -> IntOut(M16) \/ (real /\ RealOut(v, 1, 14))
          [] name = "s_10" -> IntOut(M11) \/ (real /\ RealOut(v, 0, 10))
          [] name = "s1_9" -> IntOut(M11) \/ (real /\ RealOut(v, 1, 9))
          [] name = "s_15a" -> IntOut(M16) \/ (real /\ RealOut(v, 0, 15))
          \* the floats of the model round to addresses within range
          [] name \in {"d_15", "lfo_rampfreq"} ->
                ~real /\ (v < -(M15 + 1) \/ v > M15)
          [] name = "u_32" -> v < 0
          [] name = "lfo_sinfreq" -> n < 0 \/ n > M9
          [] name \in {"register", "offset", "choflags"} -> n < 0 \/ n > M6
          [] name = "condition" -> n < 0 \/ n > M5
          [] name = "lfo" -> n < 0 \/ n > 3
          [] name = "lfo_rampamp" -> n \notin {4096, 2048, 1024, 512, 0, 1, 2, 3}

\* an instruction whose operands are literals of the types their coercers
\* take, so that the step reports out of range operands and nothing else
LiteralOperands(st) ==
    /\ Len(st.args) = Len(Signature(st))
    /\ \A i \in 1..Len(st.args) :
          /\ st.refs[i] = None
          /\ Typed(Signature(st)[i], st.args[i], i \in st.real)
    /\ st.label = None \/ (st.stxt = "CHO" /\ st.label \in Reserved)
    /\ st.expr = << >>
    /\ icnt < PROGLEN
    /\ JunkRun(Tail(source)) = 0

\* the operands of st out of range for a coercer of the set given
OutOperands(st, coercers) ==
    {i \in 1..Len(st.args) :
        /\ Signature(st)[i] \in coercers
        /\ OutOfRange(Signature(st)[i], st.args[i], i \in st.real)}

\* the lines of a kind the step writes, the notes on CHO flags aside
Written(kind) ==
    Cardinality({i \in (Len(log) + 1)..Len(log') :
        /\ log'[i][1] = kind
        /\ log'[i][2] \notin {"RMP flags set", "SIN flags set"}})

\* a MEM declaration of a literal int length out of range, for a name that
\* is not reserved
MemOutOfRange ==
    /\ status = "parse" /\ source # << >>
    /\ Head(source).type = "ASSEMBLER" /\ Head(source).stxt = "MEM"
    /\ Head(source).label # None /\ Head(source).label \notin Reserved
    /\ Head(source).refs = <<None>> /\ Head(source).real = {}
    /\ (Head(source).args[1] < 0 \/ Head(source).args[1] > DELAYSIZE)
    /\ JunkRun(Tail(source)) = 0

C20_DelayAddress ==
    [][InstructionStep =>
        LET st == Head(source)
            entry == pl'[Len(pl')]
            word == op_gen(entry.mnemonic, entry.args)
            field == {b \in 0..14 : b + 5 \in word}
            i == IF st.stxt = "WLDS" THEN 3 ELSE 1
        IN  (/\ st.stxt \in {"RDA", "WRA", "WRAP", "WLDS"}
             /\ LiteralOperands(st)
             /\ OutOperands(st, Clamping \cup Strict) = {}
             /\ -(M15 + 1) <= st.args[i] /\ st.args[i] <= M15)
            => /\ field = Bits(st.args[i] % (M15 + 1))
               /\ log' = log /\ ecount' = ecount]_vars

(***************************************************************************)
(* C21: the instruction word layout                                        *)
(***************************************************************************)
\* the layout table of the instruction words: opcode, then one
\* (width, shift) per operand
Layout(opcode, fields) == [opcode |-> opcode, fields |-> fields]

WordLayout == [m \in Mnemonics |->
    CASE m \in {"RDA"} -> Layout(0, <<<<15, 5>>, <<11, 21>>>>)
      [] m = "RMPA" -> Layout(1, <<<<11, 21>>>>)
      [] m = "WRA" -> Layout(2, <<<<15, 5>>, <<11, 21>>>>)
      [] m = "WRAP" -> Layout(3, <<<<15, 5>>, <<11, 21>>>>)
      [] m = "RDAX" -> Layout(4, <<<<6, 5>>, <<16, 16>>>>)
      [] m \in {"RDFX", "LDAX"} -> Layout(5, <<<<6, 5>>, <<16, 16>>>>)
      [] m = "WRAX" -> Layout(6, <<<<6, 5>>, <<16, 16>>>>)
      [] m = "WRHX" -> Layout(7, <<<<6, 5>>, <<16, 16>>>>)
      [] m = "WRLX" -> Layout(8, <<<<6, 5>>, <<16, 16>>>>)
      [] m \in {"MAXX", "ABSA"} -> Layout(9, <<<<6, 5>>, <<16, 16>>>>)
      [] m = "MULX" -> Layout(10, <<<<6, 5>>>>)
      [] m = "LOG" -> Layout(11, <<<<16, 16>>, <<11, 5>>>>)
      [] m = "EXP" -> Layout(12, <<<<16, 16>>, <<11, 5>>>>)
      [] m = "SOF" -> Layout(13, <<<<16, 16>>, <<11, 5>>>>)
      [] m \in {"AND", "CLR"} -> Layout(14, <<<<24, 8>>>>)
      [] m = "OR" -> Layout(15, <<<<24, 8>>>>)
      [] m \in {"XOR", "NOT"} -> Layout(16, <<<<24, 8>>>>)
      [] m \in {"SKP", "JMP", "NOP"} -> Layout(17, <<<<5, 27>>, <<6, 21>>>>)
      [] m = "WLDS" -> Layout(18, <<<<1, 29>>, <<9, 20>>, <<15, 5>>>>)
      [] m = "WLDR" -> Layout(18, <<<<2, 29>>, <<16, 13>>, <<2, 5>>>>)
      [] m = "JAM" -> Layout(19, <<<<2, 6>>>>)
      [] m = "CHO" ->
            Layout(20, <<<<2, 30>>, <<2, 21>>, <<6, 24>>, <<16, 5>>>>)
      [] m = "RAW" -> Layout(0, <<<<32, 0>>>>)]

\* opcode | (operand_i & mask_i) << shift_i over the operands of an entry,
\* by the layout table
LayoutWord(e) ==
    Bits(WordLayout[e.mnemonic].opcode)
    \cup UNION {{b + WordLayout[e.mnemonic].fields[i][2] :
                    b \in Bits(e.args[i])
                          \cap 0..(WordLayout[e.mnemonic].fields[i][1] - 1)} :
                i \in DOMAIN e.args}

\* the image holds at every word slot the word of the layout table
LayoutImage ==
    \A k \in 0..(PROGLEN - 1) :
        /\ Len(pl'[k + 1].args) <= Len(WordLayout[pl'[k + 1].mnemonic].fields)
        /\ {b \in 0..31 :
                (program'[4 * k + 4 - b \div 8] \div Pow2(b % 8)) % 2 = 1}
           = LayoutWord(pl'[k + 1])

\* the value of RAW is an int literal v, 0 <= v < 2^32
RawLiteral(st) ==
    /\ st.stxt = "RAW"
    /\ st.real = {}
    /\ st.refs = <<None>>
    /\ st.args[1] >= 0

\* the bits of that literal
RawBits(st) == Bits(st.args[1]) \cup (IF 1 \in st.wide THEN {31} ELSE {})

\* the instruction 'SOF 1.0, 0.0'
SofOne(st) == st = InsR("SOF", <<REF_S_15, 0>>, {1, 2})

\* the word of the entry just appended
LastWord == LayoutWord(pl'[Len(pl')])

\* C21: the image of a successful assembly holds at every word slot, most
\* significant byte first, the opcode of the instruction ORed with each
\* operand masked to its field width and shifted to its field position, as
\* the layout table gives them; 'SOF 1.0, 0.0' is parsed without a
\* diagnostic to the word 0x4000000D and 'RAW v', 0 <= v < 2^32, to v
C21_WordLayout ==
    [][/\ (status # "done" /\ status' = "done") => LayoutImage
       /\ (AtInstruction /\ RawLiteral(Head(source))) =>
             /\ Len(pl') = Len(pl) + 1
             /\ log' = log
             /\ LastWord = RawBits(Head(source))
       /\ (AtInstruction /\ SofOne(Head(source))) =>
             /\ Len(pl') = Len(pl) + 1
             /\ log' = log
             /\ LastWord = Bits(1073741837)]_vars

\* 'RAW $DEADBEEF' was assembled to the bytes DE AD BE EF
C21_Witness ==
    status = "done" /\ icnt = 1 /\ WordBytes(0) = <<222, 173, 190, 239>>

(***************************************************************************)
(* C22: the pseudo-instructions                                            *)
(***************************************************************************)
PseudoMnemonics == {"CLR", "NOT", "NOP", "ABSA", "LDAX", "JMP"}

\* the canonical expansion of a pseudo-instruction: CLR = AND 0,
\* NOT = XOR 0xFFFFFF, NOP = SKP 0,0, ABSA = MAXX 0,0, LDAX r = RDFX r,0
\* and JMP x = SKP 0,x
Canonical(st) ==
    CASE st.stxt = "CLR" -> Ins("AND", <<0>>, None)
      [] st.stxt = "NOT" -> Ins("XOR", <<M24>>, None)
      [] st.stxt = "NOP" -> Ins("SKP", <<0, 0>>, None)
      [] st.stxt = "ABSA" -> Ins("MAXX", <<0, 0>>, None)
      [] st.stxt = "LDAX" ->
            [st EXCEPT !.stxt = "RDFX", !.args = Append(@, 0),
                       !.refs = Append(@, None)]
      [] st.stxt = "JMP" ->
            [st EXCEPT !.stxt = "SKP", !.args = <<0>> \o @,
                       !.refs = <<None>> \o @,
                       !.real = {i + 1 : i \in @}]

\* how many of the diagnostics are errors
ErrorsOf(msgs) == Cardinality({i \in DOMAIN msgs : IsError(msgs[i])})

\* a pseudo-instruction with its operand, if it takes one, is about to be
\* parsed
AtPseudo ==
    /\ AtInstruction
    /\ Head(source).stxt \in PseudoMnemonics
    /\ Head(source).stxt = "LDAX" => Len(Head(source).args) = 1
    /\ Head(source).stxt = "JMP" =>
          Len(Head(source).args) = 1 \/ Head(source).label # None

\* the entries of the pseudo-instruction and of its expansion, parsed in
\* the same state
PseudoParsed == Parsed(Head(source), icnt, Tail(source))
CanonicalParsed == Parsed(Canonical(Head(source)), icnt, Tail(source))

\* C22: a pseudo-instruction is parsed to the same instruction word, at the
\* same address, with the same symbolic target and as many errors as its
\* canonical expansion parsed in its place; the target is resolved from the
\* address and the target alone, so its backpatch succeeds or fails alike
C22_PseudoInstructions ==
    [][AtPseudo =>
        /\ op_gen(PseudoParsed.entry.mnemonic, PseudoParsed.entry.args)
           = op_gen(CanonicalParsed.entry.mnemonic,
                    CanonicalParsed.entry.args)
        /\ PseudoParsed.entry.addr = CanonicalParsed.entry.addr
        /\ PseudoParsed.entry.target = CanonicalParsed.entry.target
        /\ ErrorsOf(PseudoParsed.msgs) = ErrorsOf(CanonicalParsed.msgs)
        /\ PseudoParsed.entry.target # None =>
              /\ PseudoParsed.entry.mnemonic = "SKP"
              /\ CanonicalParsed.entry.mnemonic = "SKP"
        /\ pl' # pl => pl' = Append(pl, PseudoParsed.entry)]_vars

\* a program with NOP and a JMP to a target was assembled: their words are
\* those of SKP 0,0 and of SKP 0,x
C22_Witness ==
    /\ status = "done"
    /\ \E k \in 1..icnt : pl[k].mnemonic = "NOP" /\ WordBytes(k - 1)[4] = 17
    /\ \E k \in 1..icnt :
          /\ pl[k].target # None
          /\ pl[k].args[1] = 0
          /\ pl[k].args[2] > 0
          /\ WordBytes(k - 1)
             = <<pl[k].args[2] \div 8, 32 * (pl[k].args[2] % 8), 0, 17>>

(***************************************************************************)
(* C23: the output file                                                    *)
(***************************************************************************)
\* an existing output file is written
Overwrites == status = "done" /\ outfile.exists /\ ~outfile.closed
              /\ outfile'.closed

\* the program number written: 0 without -p
Selected == IF opts.selected THEN opts.p ELSE 0

\* the data records of program slot n of a hex file
SlotRecords(content, n) ==
    SelectSeq(content, LAMBDA r : r.type = 0 /\ r.adr \div PROGBYTES = n)

\* the bytes that data records of HEXWIDTH bytes each hold, in order
RecordData(recs) ==
    [b \in 1..(HEXWIDTH * Len(recs)) |->
        recs[(b - 1) \div HEXWIDTH + 1].data[((b - 1) % HEXWIDTH) + 1]]

\* the bytes of a binary file outside slot n are those of old, as far as
\* old has them
KeepsOthers(content, old, n) ==
    \A i \in 1..Len(old) :
        (i <= n * PROGBYTES \/ i > (n + 1) * PROGBYTES)
        => i <= Len(content) /\ content[i] = old[i]

\* the bytes of a binary file at slot n
SlotBytes(content, n) == SubSeq(content, n * PROGBYTES + 1, (n + 1) * PROGBYTES)

\* C23 as stated: hex output keeps the records of the other slots, binary
\* output truncates the file and writes the image from the selected offset
C23_OutputFileOriginal ==
    [][Overwrites =>
        IF BinaryMode(opts)
        THEN /\ Len(outfile'.content) = (Selected + 1) * PROGBYTES
             /\ SlotBytes(outfile'.content, Selected) = program
             /\ \A i \in 1..(Selected * PROGBYTES) : outfile'.content[i] = 0
        ELSE \A n \in 0..(PROGRAMS - 1) :
                n # Selected =>
                    SlotRecords(outfile'.content, n)
                    = SlotRecords(outfile.content, n)]_vars

\* C23, amended: when the output file exists, hex output truncates it: the
\* file holds the records of the image at slot N (0 without -p), four
\* bytes each, then the EOF record, and no record of another slot; binary
\* output with -p N overwrites the 512 bytes at offset 512 N and keeps
\* every other byte, a file shorter than 512 N being extended with zeros;
\* binary output without -p truncates the file to the image
C23_OutputFile ==
    [][Overwrites =>
        IF BinaryMode(opts)
        THEN /\ SlotBytes(outfile'.content, Selected) = program
             /\ IF opts.selected
                THEN /\ KeepsOthers(outfile'.content, outfile.content,
                                    Selected)
                     /\ Len(outfile'.content) >= Len(outfile.content)
                     /\ \A i \in (Len(outfile.content) + 1)
                                 ..(Selected * PROGBYTES) :
                           outfile'.content[i] = 0
                ELSE Len(outfile'.content) = PROGBYTES
        ELSE /\ Len(outfile'.content) = PROGLEN + 1
             /\ outfile'.content[PROGLEN + 1] = EofRecord
             /\ \A k \in 1..PROGLEN :
                   /\ outfile'.content[k].adr
                      = Selected * PROGBYTES + HEXWIDTH * (k - 1)
                   /\ outfile'.content[k].len = HEXWIDTH
                   /\ Len(outfile'.content[k].data) = HEXWIDTH
             /\ RecordData(SlotRecords(outfile'.content, Selected)) = program
             /\ \A n \in 0..(PROGRAMS - 1) :
                   n # Selected =>
                       Len(SlotRecords(outfile'.content, n)) = 0]_vars

\* program 1 of an existing binary file of PROGRAMS programs was written,
\* and the programs around it are as they were
C23_Witness ==
    /\ outfile.closed
    /\ BinaryMode(opts)
    /\ opts.selected /\ opts.p = 1
    /\ Len(outfile.content) = PROGRAMS * PROGBYTES
    /\ SlotBytes(outfile.content, 1) = program
    /\ outfile.content[1] = M8
    /\ outfile.content[PROGRAMS * PROGBYTES] = M8

(***************************************************************************)
(* C24, C25: the types of expressions                                      *)
(***************************************************************************)
\* an instruction whose first operand is an expression is about to be
\* parsed
AtExpression == AtInstruction /\ 1 \in DOMAIN Head(source).expr

Operator == Head(source).expr[1].op

\* the operands of the operator and the result of Python
Left == PyValue(atom(Head(source), 1))
Right == Head(source).expr[1].rhs
Result == Apply(Operator, Left, Right)

\* the value of the expression, as __expression__ returns it
Returned == expression(Head(source), 1, Tail(source))

\* the operand that the coercer is given has the type of the result
ReturnedAs(type) ==
    /\ Result.type = type
    /\ Returned.real = (type = "float")
    /\ Returned.late = << >>
    /\ PyValue(Returned) = Result
    /\ pl' = Append(pl, Parsed(Head(source), icnt, Tail(source)).entry)

ArithmeticOps == {"+", "-", "*", "//", "/", "**"}

AtArithmetic ==
    AtExpression /\ Operator \in ArithmeticOps /\ Result.type # "raise"

\* C24 as stated: on ints every operator but / gives an int and / a float,
\* and a float operand makes the result a float
C24_ArithmeticTypesOriginal ==
    [][AtArithmetic =>
        IF Left.type = "int" /\ Right.type = "int"
        THEN ReturnedAs(IF Operator = "/" THEN "float" ELSE "int")
        ELSE ReturnedAs("float")]_vars

\* C24, amended: when no exception is raised, a + b, a - b, a * b and
\* a // b of ints are ints, a / b is a float, and a ** b is an int for
\* b >= 0 and a float for b < 0; when an operand is a float the result is
\* a float, but for a negative number raised to a fractional power, which
\* is complex: it is rejected with a parse error and replaced by the int 0
C24_ArithmeticTypes ==
    [][AtArithmetic =>
        IF Left.type = "int" /\ Right.type = "int"
        THEN ReturnedAs(IF Operator = "/"
                           \/ (Operator = "**" /\ Right.num < 0)
                        THEN "float" ELSE "int")
        ELSE IF Operator = "**" /\ Left.num < 0 /\ Right.den # 1
        THEN /\ Result.type = "complex"
             /\ Returned.val = 0 /\ ~Returned.real
             /\ Len(Returned.late) = 1 /\ IsError(Returned.late[1])
             /\ ecount' = ecount + 1
        ELSE ReturnedAs("float")]_vars

\* an expression was assembled whose value is the float 0.25, as 2 ** -2:
\* no literal of the sources has this value
C24_Witness ==
    /\ status = "done"
    /\ icnt = 1
    /\ pl[1].mnemonic = "OR"
    /\ pl[1].args = <<Pow2(21)>>
    /\ WordBytes(0) = <<32, 0, 0, 15>>

\* a bitwise operator or a shift, one operand of it a float
AtBitwiseOnReal ==
    /\ AtExpression
    /\ \/ /\ Operator \in {"|", "^", "&", "<<", ">>"}
          /\ Left.type = "float" \/ Right.type = "float"
       \/ /\ Operator \in {"~", "!"}
          /\ Left.type = "float"

\* the int of a float that is a whole number
Promoted(v) == PyInt(v.num)

\* C25 as stated: the floats, whole numbers all of them, are taken as ints
\* and the operator evaluated, with no parse error
C25_BitwisePromotionOriginal ==
    [][(AtBitwiseOnReal /\ Left.den = 1 /\ Right.den = 1
        /\ Apply(Operator, Promoted(Left), Promoted(Right)).type = "int") =>
        /\ Returned.late = << >>
        /\ ~Returned.real
        /\ PyInt(Returned.val)
           = Apply(Operator, Promoted(Left), Promoted(Right))
        /\ ecount' = ecount]_vars

\* C25, amended: a bitwise operator (| ^ & ~ !) or a shift (<< >>) on a
\* float operand, a whole number or not, raises an exception: one parse
\* error is recorded, the value of the expression is the int 0, and the
\* instruction is appended with that operand
C25_BitwiseOnReal ==
    [][AtBitwiseOnReal =>
        /\ Result.type = "raise"
        /\ Returned.val = 0 /\ ~Returned.real
        /\ Returned.late = <<ParseError(Result.msg, None)>>
        /\ ecount' = ecount + 1
        /\ log' = Append(log, ParseError(Result.msg, None))
        /\ pl' = Append(pl, Entry("OR", <<0>>, None, icnt))]_vars

\* '2.0 | int' was rejected, and the assembly ended with an error
C25_Witness ==
    /\ status = "exit"
    /\ ecount = 1
    /\ \E i \in DOMAIN log :
          log[i] = ParseError("unsupported operand type(s) for |", None)

(***************************************************************************)
(* C26: an operand in error                                                *)
(***************************************************************************)
\* the operands of the instruction about to be parsed
NextOperands == Operands(Head(source), Tail(source))

\* operand i is in error: its expression or its coercer records a parse
\* error
InError(i) ==
    \E k \in DOMAIN (NextOperands[i].before \o NextOperands[i].after) :
        IsError((NextOperands[i].before \o NextOperands[i].after)[k])

ErrorOperands == {i \in DOMAIN NextOperands : InError(i)}

\* the place of operand i in the entry: CHO holds its type first, and the
\* offset of JMP follows the condition 0
FieldOf(st, i) ==
    IF st.stxt = "CHO" THEN i + 1 ELSE IF st.stxt = "JMP" THEN 2 ELSE i

\* the field of operand i in the entry just appended
LastField(i) == pl'[Len(pl')].args[FieldOf(Head(source), i)]

AtOperandError == AtInstruction /\ ErrorOperands # {}

RampSelector(st, i) == st.stxt \in {"JAM", "WLDR"} /\ i = 1

Addressed(p) == \A k \in 1..Len(p) : p[k].addr = k - 1

\* the addresses of a list
Addrs(p) == [k \in 1..Len(p) |-> p[k].addr]

\* C27 as stated: in every reachable state icnt is the length of the parse
\* list and entry k has the address k
C27_ParseListOriginal == icnt = Len(pl) /\ Addressed(pl)

\* a statement other than an instruction is parsed, or the targets are
\* patched
AtOther == status = "parse" /\ ~AtInstruction

\* C27, amended: entry k of the parse list has the address k in every
\* reachable state, and icnt is the length of the list until the list is
\* padded; an instruction appends exactly one entry unless its errors end
\* the run; targets, declarations and the patch of the skip targets leave
\* the length and the addresses as they are; padding extends the list to
\* 128 entries, each at the address of its index, and leaves icnt at the
\* number of instructions read
C27_ParseList ==
    [][/\ Addressed(pl) /\ Addressed(pl')
       /\ status # "done" => icnt = Len(pl)
       /\ status' # "done" => icnt' = Len(pl')
       /\ (AtInstruction /\ status' # "exit") =>
             /\ Len(pl') = Len(pl) + 1
             /\ Addrs(pl') = Append(Addrs(pl), icnt)
       /\ (AtOther /\ status' # "done") =>
             /\ Addrs(pl') = Addrs(pl)
             /\ icnt' = icnt
       /\ (status # "done" /\ status' = "done") =>
             /\ icnt' = icnt
             /\ icnt <= PROGLEN
             /\ Len(pl') = PROGLEN
             /\ SubSeq(pl', 1, icnt) = pl]_vars

\* a program shorter than 128 instructions with a patched skip was padded:
\* the list is longer than icnt
C27_Witness ==
    /\ status = "done"
    /\ icnt > 0
    /\ icnt < Len(pl)
    /\ pl[Len(pl)].addr = PROGLEN - 1
    /\ \E k \in 1..icnt : pl[k].target # None /\ pl[k].addr = k - 1

(***************************************************************************)
(* C28: the names of the jump table and of the symbol table                *)
(***************************************************************************)
\* C28: in every successful assembly no name is both a jump target and an
\* entry of the symbol table, in whatever order the target and the EQU or
\* MEM of that name were written
C28_DisjointNames ==
    status = "done" =>
        \A n \in DOMAIN jmptbl : Sym(n) \notin DOMAIN symtbl

(***************************************************************************)
(* C29: the name after SKP and JMP                                         *)
(***************************************************************************)
\* a SKP or JMP whose last operand begins with a name is about to be
\* parsed
AtNamedSkip ==
    /\ AtInstruction
    /\ Head(source).stxt \in {"SKP", "JMP"}
    /\ Head(source).label # None

\* C29: a name in the place of the target of SKP or JMP is recorded as the
\* symbolic target of the entry and is not evaluated: the offset is left 0
\* and no look-up of the name in the symbol table is reported, whatever the
\* symbol table binds the name to.  The patch loop writes the offset of a
\* declared target from the jump table alone, and for a name that is not a
\* declared target it leaves the entry as it was and writes the error
\* 'Undefined target' (unless the error limit has ended the run), so no
\* assembly with such a skip succeeds and the offset of every symbolic skip
\* of a successful assembly is jmptbl[target] - address - 1
C29_SymbolicTarget ==
    /\ [][(AtNamedSkip /\ status' # "exit") =>
            /\ pl'[Len(pl')].mnemonic = "SKP"
            /\ pl'[Len(pl')].target = Head(source).label
            /\ pl'[Len(pl')].args[2] = 0
            /\ ~Writes(ParseError("Undefined label", Head(source).label))]_vars
    /\ [][AtPatch =>
            \A i \in SymbolicSkips :
                IF pl[i].target \in DOMAIN jmptbl
                THEN pl'[i].args[2] \in
                        {0, jmptbl[pl[i].target] - pl[i].addr - 1}
                ELSE /\ pl'[i] = pl[i]
                     /\ \/ Writes(ParseError("Undefined target for SKP",
                                             pl[i].target))
                        \/ status' = "exit" /\ code' = -2
                     /\ ecount' > ecount]_vars
    /\ []((source = << >> /\ status # "parse") =>
            \A i \in SymbolicSkips :
                /\ pl[i].target \notin DOMAIN jmptbl => status # "done"
                /\ status = "done" =>
                      pl[i].args[2] = jmptbl[pl[i].target] - pl[i].addr - 1)

\* 'EQU X 5' and then a skip to X, which no statement declares as a
\* target: the entry has the target X and the offset 0, and the assembly
\* failed with the error 'Undefined target'
C29_Witness ==
    /\ status = "exit" /\ code = -3
    /\ Sym("X") \in DOMAIN symtbl /\ symtbl[Sym("X")] = ScenarioGap
    /\ "X" \notin DOMAIN jmptbl
    /\ \E i \in SymbolicSkips : pl[i].target = "X" /\ pl[i].args[2] = 0
    /\ Logged(ParseError("Undefined target for SKP", "X"))

====
